---- MODULE Spec2Model ----
(***************************************************************************)
(* TheRugScopeBot: the on-chain risk-analysis core.                        *)
(*                                                                         *)
(*   token_analyzer.py     calculate_supply_score      (pure)              *)
(*   behavior_verdict.py   generate_behavior_verdict   (pure)              *)
(*   whale_engine.py       WhaleEngine (_rpc_call, sub-tasks, limiter)     *)
(*   dominance_tracker.py  atomic_lock, _load_db, _save_db,                *)
(*                         calculate_dominance_shift                       *)
(*   solana_api.py         fetch_rpc, analyze_token                        *)
(*                                                                         *)
(* Floating-point quantities are carried as scaled integers: percentages   *)
(* of supply and price change in hundredths (2.0 is 200, 0.1 is 10), the   *)
(* dominance slope in ten-thousandths (0.5 is 5000); scores are whole      *)
(* points, as every contribution in the code is a whole number.            *)
(*                                                                         *)
(* Each component has its own specification (SpecVerdict, SpecScore, ...)  *)
(* over the shared variables; the variables of the other components stay   *)
(* at their idle values.                                                   *)
(***************************************************************************)
EXTENDS Integers, Sequences, FiniteSets, TLC

VARIABLES
    vIn,        \* arguments of generate_behavior_verdict
    vOut,       \* its returned dictionary (NoResult before the call)
    sIn,        \* arguments of calculate_supply_score
    sOut,       \* its returned dictionary (NoResult before the call)
    wPhase,     \* calculate_whale_pressure: "idle", "start", "gather", "done"
    wSupply,    \* its total_supply
    wWallets,   \* its top_wallets (a sequence of addresses)
    wFlows,     \* results of the flow sub-tasks, by index into top_wallets
    wFunders,   \* results of the funding-trace sub-tasks, by index
    wOut,       \* what the call returned (NoResult while running)
    semValue,   \* WhaleEngine.semaphore._value: the free permits
    semWaiters, \* its FIFO of waiting sub-tasks, each named by its request
    lReq,       \* per request: where its calculate_whale_pressure call is
    clock,      \* time.time(), in seconds
    storeFile,  \* dominance_snapshot.json
    lockFile,   \* dominance.lock
    dProc,      \* per process: its calculate_dominance_shift call
    dCalls,     \* history variable: the values passed, in call order
    dLog,       \* history variable: per token, the values whose write succeeded
    gCall,      \* per Gateway call: where its retry loop is
    aReq,       \* the analyze_token request: where it is and what it holds
    subIn,      \* arguments and responses of one whale sub-task run alone
    subOut,     \* what that sub-task returned (NoResult before it ran)
    tmpFile,    \* dominance_snapshot.json.tmp
    defaultPrice, \* the dictionary bound as default of the parameter price_data
    callLog,    \* history variable: the calls of the two pure functions
    premFile,   \* premium_users.json: per user, the record stored
    premCache,  \* UserManager.premium_cache of the bot process
    ckOut,      \* what the last check_status call returned
    sessFile,   \* payment_sessions.json: per wallet, the session stored
    usedFile,   \* used_wallets.json
    txFile,     \* processed_transactions.json
    sessLock,   \* session.lock
    pProc,      \* the bot process and the payment engine: where each is
    grants,     \* history variable: the activations, in order
    usageCache, \* UserManager.usage_cache of the bot process
    usageFile,  \* usage_data.json
    winScans,   \* history variable: per user, the scans started as a Free
                \* user since the count was last reset
    pairIn,     \* two sets of Gateway responses for one analysis
    pairOut     \* the risk scores of the two runs (NoResult before)

verdictVars == <<vIn, vOut>>
scoreVars   == <<sIn, sOut>>
whaleVars   == <<wPhase, wSupply, wWallets, wFlows, wFunders, wOut>>
limiterVars == <<semValue, semWaiters, lReq>>
domVars     == <<clock, storeFile, lockFile, dProc, dCalls, dLog>>
gatewayVars == <<gCall>>
analyzeVars == <<aReq>>
subVars     == <<subIn, subOut>>
tmpVars     == <<tmpFile>>
pureVars    == <<defaultPrice, callLog>>
payVars     == <<premFile, premCache, ckOut, sessFile, usedFile, txFile,
                 sessLock, pProc, grants>>
usageVars   == <<usageCache, usageFile, winScans>>
pairVars    == <<pairIn, pairOut>>
vars        == <<vIn, vOut, sIn, sOut,
                 wPhase, wSupply, wWallets, wFlows, wFunders, wOut,
                 semValue, semWaiters, lReq,
                 clock, storeFile, lockFile, dProc, dCalls, dLog,
                 gCall, aReq, subIn, subOut, tmpFile,
                 defaultPrice, callLog,
                 premFile, premCache, ckOut, sessFile, usedFile, txFile,
                 sessLock, pProc, grants,
                 usageCache, usageFile, winScans,
                 pairIn, pairOut>>

\* What an action of one component leaves alone.
notVerdict == <<scoreVars, whaleVars, limiterVars, domVars, gatewayVars, analyzeVars, subVars, tmpVars, pureVars, payVars, usageVars, pairVars>>
notScore   == <<verdictVars, whaleVars, limiterVars, domVars, gatewayVars, analyzeVars, subVars, tmpVars, pureVars, payVars, usageVars, pairVars>>
notWhale   == <<verdictVars, scoreVars, limiterVars, domVars, gatewayVars, analyzeVars, subVars, tmpVars, pureVars, payVars, usageVars, pairVars>>
notLimiter == <<verdictVars, scoreVars, whaleVars, domVars, gatewayVars, analyzeVars, subVars, tmpVars, pureVars, payVars, usageVars, pairVars>>
notDom     == <<verdictVars, scoreVars, whaleVars, limiterVars, gatewayVars, analyzeVars, subVars, tmpVars, pureVars, payVars, usageVars, pairVars>>
notGateway == <<verdictVars, scoreVars, whaleVars, limiterVars, domVars, analyzeVars, subVars, tmpVars, pureVars, payVars, usageVars, pairVars>>
notSave    == <<verdictVars, scoreVars, whaleVars, limiterVars, gatewayVars, analyzeVars, subVars, pureVars, payVars, usageVars, pairVars>>
notSub     == <<verdictVars, scoreVars, whaleVars, limiterVars, domVars, gatewayVars, analyzeVars, tmpVars, pureVars, payVars, usageVars, pairVars>>

NoInput  == [none |-> TRUE]
NoResult == [none |-> TRUE]
\* A call that ended in a raised exception.
Raised   == [k |-> "raised"]

Min(a, b) == IF a < b THEN a ELSE b
Max(a, b) == IF a > b THEN a ELSE b

RECURSIVE SumFn(_, _)
\* The sum of f over the finite set S.
SumFn(f, S) ==
    IF S = {} THEN 0
    ELSE LET x == CHOOSE y \in S : TRUE IN f[x] + SumFn(f, S \ {x})

(***************************************************************************)
(* behavior_verdict.py                                                     *)
(***************************************************************************)

\* lines 21-28: structural risk, first matching branch only
StructuralStep(acc, status) ==
    IF status = "Critical Centralization"
    THEN [acc EXCEPT !.risk = @ + 40,
                     !.desc = Append(@, "Extreme centralization.")]
    ELSE IF status = "High Concentration"
    THEN [acc EXCEPT !.risk = @ + 30,
                     !.desc = Append(@, "High holder concentration.")]
    ELSE IF status = "Moderate Concentration"
    THEN [acc EXCEPT !.risk = @ + 15]
    ELSE acc

\* lines 35-37: a detected bundle
BundleStep(acc, bundle_detected) ==
    IF bundle_detected
    THEN [acc EXCEPT !.risk = @ + 50,
                     !.desc = Append(@, "INSIDER BUNDLE DETECTED.")]
    ELSE acc

\* A mutated pressure step: strong distribution scores without a sentence.
PressureStepSilent(acc, pressure) ==
    IF pressure = "Strong Distribution"
    THEN [acc EXCEPT !.risk = @ + 25]
    ELSE IF pressure = "Distribution"
    THEN [acc EXCEPT !.risk = @ + 15]
    ELSE acc

\* lines 40-44: sell pressure
PressureStep(acc, pressure) ==
    IF pressure = "Strong Distribution"
    THEN [acc EXCEPT !.risk = @ + 25,
                     !.desc = Append(@, "Whales dumping.")]
    ELSE IF pressure = "Distribution"
    THEN [acc EXCEPT !.risk = @ + 15]
    ELSE acc

\* lines 47-50: dominance slope (ten-thousandths), slope > 0.5
SlopeStep(acc, slope) ==
    IF slope > 5000
    THEN [acc EXCEPT !.risk = @ + 20,
                     !.desc = Append(@, "Top holder accumulating fast.")]
    ELSE acc

\* A mutated causality step: the price thresholds taken inclusively.
CausalityStepInclusive(acc, price_change, whale_flow) ==
    IF price_change >= 200
    THEN IF whale_flow > 10
         THEN [acc EXCEPT !.corr = "Whale Driven Pump"]
         ELSE IF whale_flow < -10
         THEN [acc EXCEPT !.corr = "Divergence: Whales Selling into Pump",
                          !.risk = @ + 25,
                          !.desc = Append(@, "Exit liquidity trap detected.")]
         ELSE [acc EXCEPT !.corr = "Organic/Retail Rally"]
    ELSE IF price_change <= -200
    THEN IF whale_flow < -10
         THEN [acc EXCEPT !.corr = "Whale Driven Dump",
                          !.risk = @ + 10]
         ELSE IF whale_flow > 10
         THEN [acc EXCEPT !.corr = "Whales Absorbing the Dip",
                          !.risk = @ - 15,
                          !.desc = Append(@, "Smart money buying the dip.")]
         ELSE [acc EXCEPT !.corr = "Retail Panic Sell"]
    ELSE acc

\* lines 55-83: price / whale-flow causality (both in hundredths; the code
\* puts a pictograph in front of each verdict text, the text is what is kept)
CausalityStep(acc, price_change, whale_flow) ==
    IF price_change > 200
    THEN IF whale_flow > 10
         THEN [acc EXCEPT !.corr = "Whale Driven Pump"]
         ELSE IF whale_flow < -10
         THEN [acc EXCEPT !.corr = "Divergence: Whales Selling into Pump",
                          !.risk = @ + 25,
                          !.desc = Append(@, "Exit liquidity trap detected.")]
         ELSE [acc EXCEPT !.corr = "Organic/Retail Rally"]
    ELSE IF price_change < -200
    THEN IF whale_flow < -10
         THEN [acc EXCEPT !.corr = "Whale Driven Dump",
                          !.risk = @ + 10]
         ELSE IF whale_flow > 10
         THEN [acc EXCEPT !.corr = "Whales Absorbing the Dip",
                          !.risk = @ - 15,
                          !.desc = Append(@, "Smart money buying the dip.")]
         ELSE [acc EXCEPT !.corr = "Retail Panic Sell"]
    ELSE acc

\* A mutated clamp: the upper bound only (max(0.0, ...) forgotten).
ClampRiskUpperOnly(risk) == Min(100, risk)

\* line 86: risk_score = min(100.0, max(0.0, risk_score))
ClampRisk(risk) == Min(100, Max(0, risk))

\* A mutated labelling: the thresholds taken exclusively.
RiskLabelExclusive(risk) ==
    IF risk > 80 THEN [label |-> "HIGH RUG RISK", intensity |-> "Critical"]
    ELSE IF risk > 50 THEN [label |-> "CAUTION ADVISED", intensity |-> "High"]
    ELSE IF risk > 25 THEN [label |-> "MODERATE RISK", intensity |-> "Medium"]
    ELSE [label |-> "STABLE / HEALTHY", intensity |-> "Low"]

\* lines 88-99: label and intensity from the clamped score (the code puts a
\* pictograph in front of each label text; the label text is what is kept)
RiskLabel(risk) ==
    IF risk >= 80 THEN [label |-> "HIGH RUG RISK", intensity |-> "Critical"]
    ELSE IF risk >= 50 THEN [label |-> "CAUTION ADVISED", intensity |-> "High"]
    ELSE IF risk >= 25 THEN [label |-> "MODERATE RISK", intensity |-> "Medium"]
    ELSE [label |-> "STABLE / HEALTHY", intensity |-> "Low"]

\* lines 17-109: the whole function.  in = [status, bundle_detected, pressure,
\* slope, price_change, whale_flow]: the fields it reads from its arguments.
generate_behavior_verdict(in) ==
    LET a0 == [risk |-> 0, desc |-> <<>>, corr |-> "Neutral / Low Volatility"]
        a1 == StructuralStep(a0, in.status)
        a2 == BundleStep(a1, in.bundle_detected)
        a3 == PressureStep(a2, in.pressure)
        a4 == SlopeStep(a3, in.slope)
        a5 == CausalityStep(a4, in.price_change, in.whale_flow)
        risk == ClampRisk(a5.risk)
        lab == RiskLabel(risk)
    IN  [risk_score          |-> risk,
         raw_score           |-> a5.risk,
         risk_intensity      |-> lab.intensity,
         verdict_label       |-> lab.label,
         verdict_description |-> IF a5.desc = <<>>
                                 THEN <<"No major anomalies detected.">>
                                 ELSE a5.desc,
         correlation_verdict |-> a5.corr]

\* The inputs the verdict is exercised on: every status and pressure string
\* the pipeline produces, and values on both sides of every threshold.
VerdictStatuses == {"Critical Centralization", "High Concentration",
                    "Moderate Concentration", "Healthy Distribution"}
VerdictPressures == {"Strong Distribution", "Distribution", "Neutral",
                     "Strong Accumulation"}
VerdictSlopes == {-6000, 5000, 5001, 6000}
VerdictPriceChanges == {-300, -201, -200, 0, 200, 201, 300}
VerdictFlows == {-20, -11, -10, 0, 10, 11}
VerdictInputs ==
    [status : VerdictStatuses, bundle_detected : BOOLEAN,
     pressure : VerdictPressures, slope : VerdictSlopes,
     price_change : VerdictPriceChanges, whale_flow : VerdictFlows]

VerdictIdle == vIn = NoInput /\ vOut = NoResult

\* A caller invokes generate_behavior_verdict on the chosen arguments.
CallVerdict ==
    /\ vIn # NoInput
    /\ vOut = NoResult
    /\ vOut' = generate_behavior_verdict(vIn)
    /\ UNCHANGED <<vIn, notVerdict>>

\* A dictionary as far as the key price_change_1h goes.
EmptyDict == [has |-> FALSE, v |-> 0]
DictOf(x) == [has |-> TRUE, v |-> x]
\* d.get(key, default)
DictGet(d, default) == IF d.has THEN d.v ELSE default
\* A call that leaves the parameter price_data to its default.
NoArgument == [k |-> "omitted"]

PureIdle == defaultPrice = EmptyDict /\ callLog = <<>>

\* A mutated function body: the price change read is stored back into
\* price_data.
VerdictArgumentsAfterStoring(args, price_data) ==
    [args |-> args, price_data |-> DictOf(DictGet(price_data, 0))]
\* lines 31-32, 47, 55-56: the dictionaries passed are only read, with .get;
\* this is what they hold when the function returns.
VerdictArgumentsAfter(args, price_data) ==
    [args |-> args, price_data |-> price_data]

\* lines 6-11, 17-109: one call of generate_behavior_verdict(status,
\* whale_data, dominance_data[, price_data]); price_data is the caller's
\* dictionary, or the one default dictionary every such call shares.
PureCallVerdict(args, passed, limit) ==
    /\ Len(callLog) < limit
    /\ LET price_data == IF passed = NoArgument THEN defaultPrice ELSE passed
           in == [status |-> args.status,
                  bundle_detected |-> args.whale_data.bundle_detected,
                  pressure |-> args.whale_data.pressure,
                  slope |-> args.dominance_data.slope,
                  price_change |-> DictGet(price_data, 0),
                  whale_flow |-> args.whale_data.net_flow_percent_supply]
           after == VerdictArgumentsAfter(args, price_data)
       IN  /\ callLog' = Append(callLog,
                 [fn |-> "generate_behavior_verdict",
                  args |-> args, passed |-> passed,
                  out |-> generate_behavior_verdict(in),
                  after |-> after.args,
                  price_after |-> IF passed = NoArgument THEN NoArgument
                                  ELSE after.price_data])
           /\ defaultPrice' = IF passed = NoArgument THEN after.price_data
                              ELSE defaultPrice
    /\ UNCHANGED <<verdictVars, scoreVars, whaleVars, limiterVars, domVars,
                   gatewayVars, analyzeVars, subVars, tmpVars, payVars, usageVars, pairVars>>

(***************************************************************************)
(* token_analyzer.py                                                       *)
(***************************************************************************)

\* A mutated top-10 step: every matching tier is subtracted, not the first.
Top10PenaltyCumulative(top10) ==
    (IF top10 > 60 THEN 50 ELSE 0) + (IF top10 > 50 THEN 40 ELSE 0)
    + (IF top10 > 35 THEN 30 ELSE 0) + (IF top10 >= 20 THEN 20 ELSE 0)

\* lines 21-24: top-1 penalty (percent of supply)
Top1Penalty(top1) ==
    IF top1 > 40 THEN 60
    ELSE IF top1 > 20 THEN 40
    ELSE IF top1 > 10 THEN 20
    ELSE IF top1 > 5 THEN 10
    ELSE 0

\* lines 27-30: top-10 penalty
Top10Penalty(top10) ==
    IF top10 > 60 THEN 50
    ELSE IF top10 > 50 THEN 40
    ELSE IF top10 > 35 THEN 30
    ELSE IF top10 >= 20 THEN 20
    ELSE 0

\* lines 33-36: holder-count adjustment (added to the score)
HolderAdjust(holders) ==
    IF holders > 0
    THEN IF holders < 100 THEN -20
         ELSE IF holders < 500 THEN -10
         ELSE IF holders > 2000 THEN 5
         ELSE 0
    ELSE 0

\* A mutated clamp: only the lower bound is applied.
ClampScoreLowerOnly(score) == Max(0, score)

\* A mutated status: the thresholds taken exclusively.
SupplyStatusExclusive(score) ==
    IF score > 85 THEN "Healthy Distribution"
    ELSE IF score > 65 THEN "Moderate Concentration"
    ELSE IF score > 40 THEN "High Concentration"
    ELSE "Critical Centralization"

\* line 44: score = max(0.0, min(100.0, score))
ClampScore(score) == Max(0, Min(100, score))

\* lines 46-49: status from the clamped score
SupplyStatus(score) ==
    IF score >= 85 THEN "Healthy Distribution"
    ELSE IF score >= 65 THEN "Moderate Concentration"
    ELSE IF score >= 40 THEN "High Concentration"
    ELSE "Critical Centralization"

\* lines 17-60: the whole function.  hhi is carried times 9:
\* 9 * (top1^2 + 9 * (remaining/9)^2) = 9 * top1^2 + remaining^2.
calculate_supply_score(top1, top10, holders) ==
    LET raw == 100 - Top1Penalty(top1) - Top10Penalty(top10)
               + HolderAdjust(holders)
        remaining == Max(0, top10 - top1)
        score == ClampScore(raw)
    IN  [score  |-> score,
         raw    |-> raw,
         status |-> SupplyStatus(score),
         top1_percent  |-> top1,
         top10_percent |-> top10,
         hhi_times9    |-> 9 * top1 * top1 + remaining * remaining]

ScoreTop1s == {0, 5, 6, 8, 10, 11, 20, 21, 40, 41, 45, 100}
ScoreTop10s == {0, 19, 20, 25, 35, 36, 50, 51, 60, 61, 70, 100}
ScoreHolders == {0, 1, 50, 99, 100, 499, 500, 1000, 2000, 2001}
ScoreInputs == [top1 : ScoreTop1s, top10 : ScoreTop10s, holders : ScoreHolders]

ScoreIdle == sIn = NoInput /\ sOut = NoResult

\* A caller invokes calculate_supply_score on the chosen arguments.
CallScore ==
    /\ sIn # NoInput
    /\ sOut = NoResult
    /\ sOut' = calculate_supply_score(sIn.top1, sIn.top10, sIn.holders)
    /\ UNCHANGED <<sIn, notScore>>

\* lines 7-60: one call of calculate_supply_score; its arguments are
\* numbers, which no call can alter.
PureCallScore(args, limit) ==
    /\ Len(callLog) < limit
    /\ callLog' = Append(callLog,
          [fn |-> "calculate_supply_score",
           args |-> args, passed |-> NoArgument,
           out |-> calculate_supply_score(args.top1, args.top10, args.holders),
           after |-> args, price_after |-> NoArgument])
    /\ UNCHANGED <<defaultPrice, verdictVars, scoreVars, whaleVars, limiterVars,
                   domVars, gatewayVars, analyzeVars, subVars, tmpVars, payVars, usageVars, pairVars>>

(***************************************************************************)
(* whale_engine.py: what one calculate_whale_pressure call computes        *)
(*                                                                         *)
(* A Gateway response is carried by what the code reads of it, tagged by   *)
(* its field k:                                                            *)
(*   Empty          {} (retries exhausted, or an error response)           *)
(*   Malformed      a response lacking a field the code indexes            *)
(*   [k |-> "ok", ...] the fields read.                                    *)
(* A sub-task result is Val(v), Raised or, while it runs, Pending.         *)
(* Token amounts are whole tokens; net_flow_percent_supply is carried in   *)
(* hundredths of a percent.                                                *)
(***************************************************************************)

Empty     == [k |-> "empty"]
Malformed == [k |-> "malformed"]
Pending   == [k |-> "pending"]
Val(v)    == [k |-> "val", v |-> v]
\* Python's None, the funding trace's "Unknown"
None      == "None"

\* line 137: accounts[:7]
TopWallets == 7
\* line 60: signatures[:5]
FlowTxLimit == 5
\* line 93: len(signatures) == 100
EstablishedCount == 100

\* lines 61-71, one transaction of the loop.  tx is the getTransaction
\* response: Empty, Malformed (a result without "meta", a balance entry
\* without "owner") or [k |-> "ok", err, pre, post].
FlowOfTx(tx) ==
    IF tx.k = "empty" THEN Val(0)              \* not result: continue
    ELSE IF tx.k = "malformed" THEN Raised     \* KeyError / AttributeError
    ELSE IF tx.err THEN Val(0)                 \* meta.err: continue
    ELSE Val(tx.post - tx.pre)

RECURSIVE SumFlows(_)
\* lines 58-73: net_change over the inspected transactions, in order; an
\* exception in one of them ends the sub-task.
SumFlows(txs) ==
    IF txs = <<>> THEN Val(0)
    ELSE LET d == FlowOfTx(Head(txs))
             rest == SumFlows(Tail(txs))
         IN  IF d = Raised \/ rest = Raised THEN Raised ELSE Val(d.v + rest.v)

\* A mutated flow sub-task: every listed transaction is inspected
\* (signatures without the [:5]).
analyze_wallet_flow_unsliced(sigs) ==
    IF sigs.k = "empty" THEN Val(0)
    ELSE IF sigs.k = "malformed" THEN Raised
    ELSE IF sigs.txs = <<>> THEN Val(0)
    ELSE SumFlows(sigs.txs)

\* lines 48-73: _analyze_wallet_flow.  sigs is the getSignaturesForAddress
\* response: Empty, Malformed (an entry without "signature") or
\* [k |-> "ok", txs]: the getTransaction responses of the signatures it
\* lists, newest first.  No try/except: a malformed response raises out of
\* the sub-task.
analyze_wallet_flow(sigs) ==
    IF sigs.k = "empty" THEN Val(0)
    ELSE IF sigs.k = "malformed" THEN Raised
    ELSE IF sigs.txs = <<>> THEN Val(0)
    ELSE SumFlows(SubSeq(sigs.txs, 1, Min(FlowTxLimit, Len(sigs.txs))))

\* A mutated funding trace: the signer is returned as it is, the wallet's
\* own address included.
find_funding_source_no_self(wallet, sigs, tx) ==
    IF sigs.k = "empty" THEN Val(None)
    ELSE IF sigs.k = "ok" /\ sigs.count = 0 THEN Val(None)
    ELSE IF sigs.k = "ok" /\ sigs.count = EstablishedCount
         THEN Val("Established_User")
    ELSE IF sigs.k = "malformed" THEN Raised
    ELSE IF tx.k = "empty" THEN Val(None)
    ELSE IF tx.k = "malformed" THEN Val(None)
    ELSE Val(tx.signer)

\* lines 75-116: _find_funding_source.  sigs is Empty, Malformed (entries
\* without "signature") or [k |-> "ok", count]; tx is the getTransaction
\* response of the oldest signature: Empty, Malformed (caught by the
\* try/except of lines 107-116) or [k |-> "ok", signer]: an address or None.
find_funding_source(wallet, sigs, tx) ==
    IF sigs.k = "empty" THEN Val(None)
    ELSE IF sigs.k = "ok" /\ sigs.count = 0 THEN Val(None)
    ELSE IF sigs.k = "ok" /\ sigs.count = EstablishedCount
         THEN Val("Established_User")
    ELSE IF sigs.k = "malformed" THEN Raised   \* signatures[-1]["signature"]
    ELSE IF tx.k = "empty" THEN Val(None)
    ELSE IF tx.k = "malformed" THEN Val(None)  \* except: return None
    ELSE IF tx.signer # wallet THEN Val(tx.signer) ELSE Val("Self_Funded")

RECURSIVE SeqFilter(_, _)
\* The subsequence of s whose elements are in keep, order preserved.
SeqFilter(s, keep) ==
    IF s = <<>> THEN <<>>
    ELSE IF Head(s) \in keep THEN <<Head(s)>> \o SeqFilter(Tail(s), keep)
    ELSE SeqFilter(Tail(s), keep)

Range(s) == {s[i] : i \in DOMAIN s}
CountOf(x, s) == Cardinality({i \in DOMAIN s : s[i] = x})
FirstIndex(x, s) == CHOOSE i \in DOMAIN s : s[i] = x /\ \A j \in 1..(i-1) : s[j] # x

\* A mutated filter: Self_Funded is not excluded.
SuspectFundersKeepSelf(funders) ==
    SeqFilter(funders, Range(funders) \ {None, "Established_User"})

\* line 164: [f for f in funders if f and f not in [Established, Self]]
SuspectFunders(funders) ==
    SeqFilter(funders, Range(funders) \ {None, "Established_User", "Self_Funded"})

\* lines 165, 173: Counter(...).most_common(1)[0]: the element with the
\* largest count, the earliest inserted (first seen) among equals.
MostCommon(s) ==
    LET best == CHOOSE x \in Range(s) :
                    \A y \in Range(s) :
                        \/ CountOf(y, s) < CountOf(x, s)
                        \/ /\ CountOf(y, s) = CountOf(x, s)
                           /\ FirstIndex(x, s) <= FirstIndex(y, s)
    IN  <<best, CountOf(best, s)>>

\* lines 162-179: bundle detection over the funding-trace results
DetectBundle(funders) ==
    LET suspect_funders == SuspectFunders(funders)
    IN  IF suspect_funders = <<>>
        THEN [bundle_detected |-> FALSE, bundle_size |-> 0, main_funder |-> "None"]
        ELSE LET most_common == MostCommon(suspect_funders)
             IN  [bundle_detected |-> most_common[2] >= 2,
                  bundle_size     |-> most_common[2],
                  main_funder     |-> most_common[1]]

RECURSIVE SeqSum(_)
SeqSum(s) == IF s = <<>> THEN 0 ELSE Head(s) + SeqSum(Tail(s))

\* lines 155-160: net flow as a share of supply and the pressure label.
\* flow_percent > 0.5 is net_flow * 100 / total_supply > 0.5.
WhalePressure(flows, total_supply) ==
    LET net_flow == SeqSum(flows)
    IN  [net_flow_percent_supply |-> (net_flow * 10000) \div total_supply,
         pressure |-> IF net_flow * 200 > total_supply THEN "Strong Accumulation"
                      ELSE IF net_flow * 200 < -total_supply THEN "Strong Distribution"
                      ELSE "Neutral"]

\* lines 149-192: the returned dictionary
WhaleResult(flows, funders, total_supply) ==
    LET p == WhalePressure(flows, total_supply)
        b == DetectBundle(funders)
    IN  [pressure |-> p.pressure,
         net_flow_percent_supply |-> p.net_flow_percent_supply,
         bundle_detected |-> b.bundle_detected,
         bundle_size |-> b.bundle_size,
         main_funder |-> b.main_funder,
         scanned_wallets |-> Len(funders)]

\* line 134: the early return when no holder account is known
WhaleNoAccounts == [pressure |-> "Neutral", bundle_detected |-> FALSE]

WhaleIdle ==
    /\ wPhase = "idle" /\ wSupply = 0 /\ wWallets = <<>>
    /\ wFlows = <<>> /\ wFunders = <<>> /\ wOut = NoResult

\* The holder accounts the ledger may list, largest first.
WalletAddrs == <<"W1", "W2", "W3", "W4", "W5", "W6", "W7", "W8">>
\* Wallets that are no holder of the token: possible fee payers.
FunderAddrs == {"FA", "FB"}
\* Most accounts a getTokenLargestAccounts response lists in SpecWhale.
MaxAccounts == 2
\* Most signatures a flow sub-task's signature response lists in SpecWhale.
MaxFlowSigs == 2

\* getTokenSupply responses: uiAmount null/0 or a supply of 1000 tokens
SupplyResponses ==
    {Empty, Malformed} \cup {[k |-> "ok", uiAmount |-> a] : a \in {0, 1000}}
\* getTokenLargestAccounts responses: the number of accounts listed
HolderResponses ==
    {Empty, Malformed} \cup {[k |-> "ok", n |-> n] : n \in 0..MaxAccounts}
\* getTransaction responses read by the flow sub-task
FlowTxResponses ==
    {Empty, Malformed, [k |-> "ok", err |-> TRUE, pre |-> 0, post |-> 0]}
    \cup {[k |-> "ok", err |-> FALSE, pre |-> 10, post |-> q] : q \in {0, 20}}
\* Sequences over S of length at most n
SeqsUpTo(S, n) == UNION {[1..m -> S] : m \in 0..n}
\* getSignaturesForAddress responses read by the flow sub-task
FlowSigResponses ==
    {Empty, Malformed}
    \cup {[k |-> "ok", txs |-> t] : t \in SeqsUpTo(FlowTxResponses, MaxFlowSigs)}
\* getSignaturesForAddress responses read by the funding trace
FundSigResponses ==
    {Empty, Malformed}
    \cup {[k |-> "ok", count |-> c] : c \in {0, 1, 99, EstablishedCount}}
\* getTransaction responses read by the funding trace of wallet w
FundTxResponses(w) ==
    {Empty, Malformed}
    \cup {[k |-> "ok", signer |-> a] : a \in FunderAddrs \cup {w, None}}

\* lines 122-137: step 1, the two fetches and what is made of them.
WhaleStep1 ==
    /\ wPhase = "start"
    /\ \E supply_resp \in SupplyResponses, holders_resp \in HolderResponses :
         IF supply_resp.k = "malformed" \/ holders_resp.k = "malformed"
         THEN \* .get on a non-dict, acc["address"] on an entry without it
              /\ wPhase' = "done"
              /\ wOut' = Raised
              /\ UNCHANGED <<wSupply, wWallets, wFlows, wFunders>>
         ELSE LET total_supply == IF supply_resp.k = "ok" /\ supply_resp.uiAmount # 0
                                  THEN supply_resp.uiAmount ELSE 1
                  n == IF holders_resp.k = "ok" THEN holders_resp.n ELSE 0
                  top == Min(TopWallets, n)
              IN  IF n = 0
                  THEN /\ wPhase' = "done"
                       /\ wOut' = WhaleNoAccounts
                       /\ wSupply' = total_supply
                       /\ UNCHANGED <<wWallets, wFlows, wFunders>>
                  ELSE /\ wPhase' = "gather"
                       /\ wSupply' = total_supply
                       /\ wWallets' = SubSeq(WalletAddrs, 1, top)
                       /\ wFlows' = [i \in 1..top |-> Pending]
                       /\ wFunders' = [i \in 1..top |-> Pending]
                       /\ wOut' = NoResult
    /\ UNCHANGED notWhale

\* lines 141, 48-73: the flow sub-task of wallet i runs to its end.
FlowTask(i) ==
    /\ wPhase = "gather"
    /\ wFlows[i] = Pending
    /\ \E sigs \in FlowSigResponses :
         wFlows' = [wFlows EXCEPT ![i] = analyze_wallet_flow(sigs)]
    /\ UNCHANGED <<wPhase, wSupply, wWallets, wFunders, wOut, notWhale>>

\* lines 144, 75-116: the funding trace of wallet i runs to its end.
FundTask(i) ==
    /\ wPhase = "gather"
    /\ wFunders[i] = Pending
    /\ \E sigs \in FundSigResponses, tx \in FundTxResponses(wWallets[i]) :
         wFunders' = [wFunders EXCEPT ![i] = find_funding_source(wWallets[i], sigs, tx)]
    /\ UNCHANGED <<wPhase, wSupply, wWallets, wFlows, wOut, notWhale>>

\* line 146: asyncio.gather without return_exceptions: the first exception
\* of a sub-task is raised out of calculate_whale_pressure at once.
WhaleAbort ==
    /\ wPhase = "gather"
    /\ \E i \in DOMAIN wWallets : wFlows[i] = Raised \/ wFunders[i] = Raised
    /\ wPhase' = "done"
    /\ wOut' = Raised
    /\ UNCHANGED <<wSupply, wWallets, wFlows, wFunders, notWhale>>

\* lines 146-192: every sub-task has returned; aggregate and return.
WhaleAggregate ==
    /\ wPhase = "gather"
    /\ \A i \in DOMAIN wWallets : wFlows[i].k = "val" /\ wFunders[i].k = "val"
    /\ wPhase' = "done"
    /\ wOut' = WhaleResult([i \in DOMAIN wFlows |-> wFlows[i].v],
                           [i \in DOMAIN wFunders |-> wFunders[i].v],
                           wSupply)
    /\ UNCHANGED <<wSupply, wWallets, wFlows, wFunders, notWhale>>

WhaleNext ==
    \/ WhaleStep1
    \/ \E i \in DOMAIN wWallets : FlowTask(i)
    \/ \E i \in DOMAIN wWallets : FundTask(i)
    \/ WhaleAbort
    \/ WhaleAggregate

(***************************************************************************)
(* whale_engine.py: the shared limiter and the Gateway calls in flight     *)
(*                                                                         *)
(* Every request runs calculate_whale_pressure of the one WhaleEngine      *)
(* (line 194), so all share self.semaphore.  The sub-tasks of one request  *)
(* differ only in what they fetch, so each request is carried by counts:   *)
(*   s1call, s1sleep  step-1 _rpc_calls posted / in backoff (lines 125-128)*)
(*   num              sub-tasks gathered at line 146 (2 per wallet)        *)
(*   call, sleep      sub-tasks holding a permit with a call posted / in   *)
(*                    the backoff sleep of _rpc_call                       *)
(*   woken            sub-tasks whose wait was ended by a release and that *)
(*                    have not run yet                                     *)
(*   left             sub-tasks that have ended (returned or raised)       *)
(* Suspension points are the awaits: client.post, asyncio.sleep and the    *)
(* semaphore's wait; what runs between two of them is one action.          *)
(***************************************************************************)

\* line 20
CONCURRENCY_LIMIT == 5
\* Most accounts a getTokenLargestAccounts response lists in SpecLimiter.
MaxLimiterAccounts == 3

Requests == {"r1", "r2"}

ReqIdle == [phase |-> "idle", num |-> 0, s1call |-> 0, s1sleep |-> 0,
            call |-> 0, sleep |-> 0, woken |-> 0, left |-> 0]

LimiterIdle ==
    /\ semValue = CONCURRENCY_LIMIT
    /\ semWaiters = <<>>
    /\ lReq = [r \in Requests |-> ReqIdle]

RECURSIVE Repeat(_, _)
Repeat(x, n) == IF n = 0 THEN <<>> ELSE <<x>> \o Repeat(x, n - 1)

\* lines 125-128: the call starts; both step-1 coroutines post their request.
\* Neither enters "async with self.semaphore".
LimStart(r) ==
    /\ lReq[r].phase = "idle"
    /\ lReq' = [lReq EXCEPT ![r].phase = "step1", ![r].s1call = 2]
    /\ UNCHANGED <<semValue, semWaiters, notLimiter>>

\* lines 34-45: a step-1 post fails or is rate limited: backoff sleep.
LimStep1Backoff(r) ==
    /\ lReq[r].s1call > 0
    /\ lReq' = [lReq EXCEPT ![r].s1call = @ - 1, ![r].s1sleep = @ + 1]
    /\ UNCHANGED <<semValue, semWaiters, notLimiter>>

\* lines 28-34: the sleep ends and the next attempt posts.
LimStep1Retry(r) ==
    /\ lReq[r].s1sleep > 0
    /\ lReq' = [lReq EXCEPT ![r].s1call = @ + 1, ![r].s1sleep = @ - 1]
    /\ UNCHANGED <<semValue, semWaiters, notLimiter>>

\* lines 43/46: a step-1 _rpc_call returns (from its post, or from its last
\* backoff sleep with {}).
LimStep1Return(r) ==
    /\ \/ /\ lReq[r].s1call > 0
          /\ lReq' = [lReq EXCEPT ![r].s1call = @ - 1]
       \/ /\ lReq[r].s1sleep > 0
          /\ lReq' = [lReq EXCEPT ![r].s1sleep = @ - 1]
    /\ UNCHANGED <<semValue, semWaiters, notLimiter>>

\* lines 128-146: both step-1 calls have returned.  With no account (or a
\* malformed response) the call ends; otherwise the 2 * wallets sub-tasks are
\* gathered and start in order: Semaphore.acquire takes a permit while
\* _value > 0 and posts the first request (lines 50-52, 80-84), else the
\* sub-task joins the waiters.
LimGather(r) ==
    /\ lReq[r].phase = "step1"
    /\ lReq[r].s1call = 0 /\ lReq[r].s1sleep = 0
    /\ \E wallets \in 0..Min(TopWallets, MaxLimiterAccounts) :
         IF wallets = 0
         THEN /\ lReq' = [lReq EXCEPT ![r].phase = "done"]
              /\ UNCHANGED <<semValue, semWaiters>>
         ELSE LET n == 2 * wallets
                  got == Min(n, semValue)
              IN  /\ lReq' = [lReq EXCEPT ![r].phase = "step2", ![r].num = n,
                                          ![r].call = got]
                  /\ semValue' = semValue - got
                  /\ semWaiters' = semWaiters \o Repeat(r, n - got)
    /\ UNCHANGED notLimiter

\* A mutated release: _value += 1, and no waiter's wait is ended.
ReleasePermitNoWake(req) ==
    /\ semValue' = semValue + 1
    /\ lReq' = req
    /\ semWaiters' = semWaiters

\* Semaphore.release: _value += 1 and the first waiter's wait is ended.
\* Applied to the state after the releasing sub-task's own change.
ReleasePermit(req) ==
    /\ semValue' = semValue + 1
    /\ IF semWaiters = <<>>
       THEN /\ lReq' = req
            /\ semWaiters' = semWaiters
       ELSE /\ lReq' = [req EXCEPT ![Head(semWaiters)].woken = @ + 1]
            /\ semWaiters' = Tail(semWaiters)

\* lines 44-45, 40: a sub-task's post fails or is rate limited; it sleeps in
\* _rpc_call, still inside "async with self.semaphore".
LimTaskBackoff(r) ==
    /\ lReq[r].call > 0
    /\ lReq' = [lReq EXCEPT ![r].call = @ - 1, ![r].sleep = @ + 1]
    /\ UNCHANGED <<semValue, semWaiters, notLimiter>>

\* The sleep ends: the next attempt posts, or _rpc_call returned {} and the
\* sub-task posts its next request.
LimTaskRetry(r) ==
    /\ lReq[r].sleep > 0
    /\ lReq' = [lReq EXCEPT ![r].call = @ + 1, ![r].sleep = @ - 1]
    /\ UNCHANGED <<semValue, semWaiters, notLimiter>>

\* A mutated end of a sub-task: one that ends after its last backoff sleep
\* keeps its permit.
LimTaskEndKeepsPermit(r) ==
    /\ \/ /\ lReq[r].call > 0
          /\ ReleasePermit([lReq EXCEPT ![r].call = @ - 1, ![r].left = @ + 1])
       \/ /\ lReq[r].sleep > 0
          /\ lReq' = [lReq EXCEPT ![r].sleep = @ - 1, ![r].left = @ + 1]
          /\ UNCHANGED <<semValue, semWaiters>>
    /\ UNCHANGED notLimiter

\* lines 56, 73, 89-116: a sub-task ends, by return or by an exception, after
\* a response or after its last backoff sleep; "async with" releases.
LimTaskEnd(r) ==
    /\ \/ /\ lReq[r].call > 0
          /\ ReleasePermit([lReq EXCEPT ![r].call = @ - 1, ![r].left = @ + 1])
       \/ /\ lReq[r].sleep > 0
          /\ ReleasePermit([lReq EXCEPT ![r].sleep = @ - 1, ![r].left = @ + 1])
    /\ UNCHANGED notLimiter

\* Semaphore.acquire after the wait: "while self._value <= 0" is tested
\* again; the sub-task takes the permit and posts, or waits again at the end
\* of the queue when another sub-task took the permit first.
LimWokenRuns(r) ==
    /\ lReq[r].woken > 0
    /\ IF semValue > 0
       THEN /\ semValue' = semValue - 1
            /\ lReq' = [lReq EXCEPT ![r].woken = @ - 1, ![r].call = @ + 1]
            /\ UNCHANGED semWaiters
       ELSE /\ semWaiters' = Append(semWaiters, r)
            /\ lReq' = [lReq EXCEPT ![r].woken = @ - 1]
            /\ UNCHANGED semValue
    /\ UNCHANGED notLimiter

\* line 146: the gather is over, every sub-task having ended.
LimJoin(r) ==
    /\ lReq[r].phase = "step2"
    /\ lReq[r].left = lReq[r].num
    /\ lReq' = [lReq EXCEPT ![r].phase = "done"]
    /\ UNCHANGED <<semValue, semWaiters, notLimiter>>

LimiterNext ==
    \E r \in Requests :
        \/ LimStart(r)
        \/ LimStep1Backoff(r)
        \/ LimStep1Retry(r)
        \/ LimStep1Return(r)
        \/ LimGather(r)
        \/ LimTaskBackoff(r)
        \/ LimTaskRetry(r)
        \/ LimTaskEnd(r)
        \/ LimWokenRuns(r)
        \/ LimJoin(r)

\* Gateway requests posted and not yet answered, over all requests.
CallsInFlight == SumFn([r \in Requests |-> lReq[r].s1call + lReq[r].call], Requests)
\* Sub-tasks inside "async with self.semaphore", over all requests.
PermitsHeld == SumFn([r \in Requests |-> lReq[r].call + lReq[r].sleep], Requests)

(***************************************************************************)
(* dominance_tracker.py                                                    *)
(*                                                                         *)
(* Values are whole percents of supply.  A history is a sequence of        *)
(* [ts, val]; the store maps every token to its history, a token that is   *)
(* no key of the JSON object to the empty one.  slope is carried in        *)
(* ten-thousandths (round(slope, 4)), volatility in hundredths.            *)
(***************************************************************************)

\* line 13
HISTORY_LIMIT == 10
\* line 29: timeout = 5.0
LockTimeout == 5
\* line 94: seconds per hour
SecondsPerHour == 3600

Mints == {"m1", "m2"}
Procs == {"p1", "p2"}
EmptyDb == [m \in Mints |-> <<>>]
NoFile == [k |-> "none"]

\* lines 68-75: _load_db; a missing or unparseable file is the empty map
LoadDb(file) == IF file.k = "ok" THEN file.data ELSE EmptyDb

\* A mutated trim: the first HISTORY_LIMIT entries are kept (history[:10]).
TrimKeepOldest(history) ==
    IF Len(history) > HISTORY_LIMIT
    THEN SubSeq(history, 1, HISTORY_LIMIT)
    ELSE history

\* lines 135-136: history = history[-HISTORY_LIMIT:]
Trim(history) ==
    IF Len(history) > HISTORY_LIMIT
    THEN SubSeq(history, Len(history) - HISTORY_LIMIT + 1, Len(history))
    ELSE history

\* lines 126-138: append the new sample and trim
AppendSample(db, mint, now, current_top1) ==
    [db EXCEPT ![mint] = Trim(Append(@, [ts |-> now, val |-> current_top1]))]

RECURSIVE GCD(_, _)
GCD(a, b) == IF b = 0 THEN a ELSE GCD(b, a % b)
RECURSIVE SeqGCD(_)
SeqGCD(s) == IF s = <<>> THEN 0 ELSE GCD(Head(s), SeqGCD(Tail(s)))
\* floor(a * 10000 / b) for b > 0, in two steps to stay within 32 bits
Floor1e4(a, b) ==
    LET q1 == (a * 100) \div b
        r1 == (a * 100) % b
    IN  q1 * 100 + (r1 * 100) \div b

\* lines 88-107: calculate_slope.  x is seconds since the first sample over
\* 3600; with X = ts - ts0 = g * X', slope = 3600 * N' / (g * D') where
\* N' = n * sum(X'y) - sum(X') * sum(y) and D' = n * sum(X'X') - sum(X')^2.
\* Returns [num, den] with den > 0, or den = 0 for the degenerate spread.
SlopeFraction(history) ==
    IF Len(history) < 2 THEN [num |-> 0, den |-> 0]
    ELSE LET n == Len(history)
             X == [i \in 1..n |-> history[i].ts - history[1].ts]
             g == IF SeqGCD(X) = 0 THEN 1 ELSE SeqGCD(X)
             x == [i \in 1..n |-> X[i] \div g]
             y == [i \in 1..n |-> history[i].val]
             sum_x == SeqSum(x)
             sum_y == SeqSum(y)
             sum_xy == SeqSum([i \in 1..n |-> x[i] * y[i]])
             sum_xx == SeqSum([i \in 1..n |-> x[i] * x[i]])
             denominator == n * sum_xx - sum_x * sum_x
             h == GCD(SecondsPerHour, g)
         IN  IF denominator = 0 THEN [num |-> 0, den |-> 0]
             ELSE [num |-> (SecondsPerHour \div h) * (n * sum_xy - sum_x * sum_y),
                   den |-> (g \div h) * denominator]

\* slope > a / b as the code's float comparison, for b > 0
SlopeAbove(f, a, b) == f.den # 0 /\ f.num * b > a * f.den
SlopeBelow(f, a, b) == f.den # 0 /\ f.num * b < a * f.den
\* round(slope, 4) in ten-thousandths: the nearest, a tie upwards
Slope1e4(f) == IF f.den = 0 THEN 0 ELSE (Floor1e4(2 * f.num, f.den) + 1) \div 2

RECURSIVE IsqrtIn(_, _, _)
\* the largest r in lo..hi with r * r <= m
IsqrtIn(m, lo, hi) ==
    IF lo >= hi THEN lo
    ELSE LET mid == (lo + hi + 1) \div 2
         IN  IF mid * mid <= m THEN IsqrtIn(m, mid, hi) ELSE IsqrtIn(m, lo, mid - 1)

\* lines 109-115: calculate_volatility, the population variance as the
\* fraction num / den: (n * sum(y^2) - sum(y)^2) / n^2
VarianceFraction(history) ==
    IF Len(history) < 2 THEN [num |-> 0, den |-> 1]
    ELSE LET n == Len(history)
             y == [i \in 1..n |-> history[i].val]
         IN  [num |-> n * SeqSum([i \in 1..n |-> y[i] * y[i]]) - SeqSum(y) * SeqSum(y),
              den |-> n * n]
\* round(math.sqrt(variance), 2) in hundredths: the nearest
Volatility100(v) == (IsqrtIn(Floor1e4(4 * v.num, v.den), 0, 20000) + 1) \div 2

\* A mutated first-record test: len(history) < 3.
IsFirstRecordUntilThree(history) == Len(history) < 3
\* line 142: len(history) < 2
IsFirstRecord(history) == Len(history) < 2

\* A mutated previous value: the oldest sample kept (history[0]).
PreviousValueOldest(history) == history[1].val
\* line 154: history[-2]['val']
PreviousValue(history) == history[Len(history) - 1].val

\* lines 166-168: status from the unrounded shift
ShiftStatus(shift) ==
    IF shift > 2 THEN "Accumulation"
    ELSE IF shift < -2 THEN "Distribution"
    ELSE "Stable"

\* A mutated regime: volatility is tested before the slope.
RegimeVolatilityFirst(slope, variance) ==
    IF variance.num > 4 * variance.den THEN "Volatile Reallocation"
    ELSE IF SlopeAbove(slope, 1, 2) THEN "Aggressive Consolidation"
    ELSE IF SlopeBelow(slope, -1, 2) THEN "Rapid Dilution"
    ELSE "Stable"
\* lines 160-163: regime from the unrounded slope and volatility;
\* volatility > 2.0 is variance > 4
Regime(slope, variance) ==
    IF SlopeAbove(slope, 1, 2) THEN "Aggressive Consolidation"
    ELSE IF SlopeBelow(slope, -1, 2) THEN "Rapid Dilution"
    ELSE IF variance.num > 4 * variance.den THEN "Volatile Reallocation"
    ELSE "Stable"

\* lines 141-178: the returned dictionary, from the trimmed history
ShiftResult(history, current_top1) ==
    IF IsFirstRecord(history)
    THEN [previous_top1 |-> 0, current_top1 |-> current_top1, shift |-> 0,
          slope |-> 0, volatility |-> 0,
          regime |-> "Initial", status |-> "First Record"]
    ELSE LET prev_val == PreviousValue(history)
             shift == current_top1 - prev_val
             slope == SlopeFraction(history)
             variance == VarianceFraction(history)
         IN  [previous_top1 |-> prev_val,
              current_top1  |-> current_top1,
              shift         |-> shift,
              slope         |-> Slope1e4(slope),
              volatility    |-> Volatility100(variance),
              regime        |-> Regime(slope, variance),
              status        |-> ShiftStatus(shift)]

\* One process's call: where it is (pc), the locals start_time, lock_fd (fd:
\* whether it is set), mint, current_top1 (val) and db, what the call returned
\* (out), and whether the call has passed the timeout test of line 41.
\* History fields: the token's history as _load_db returned it (loaded) and
\* whether _save_db replaced the store (wrote).
\* tfd is the file its descriptor opened on the temporary file refers to:
\* "tmp" while that file has the temporary name, "store" once a rename has
\* given it the store's name, "gone" once it has no name, "none" when closed.
ProcIdle == [pc |-> "idle", start |-> 0, fd |-> FALSE, mint |-> "m1", val |-> 0,
             db |-> EmptyDb, out |-> NoResult, timedout |-> FALSE,
             loaded |-> <<>>, wrote |-> FALSE, tfd |-> "none"]

DomIdle ==
    /\ clock = 0
    /\ storeFile = NoFile
    /\ tmpFile = NoFile
    /\ lockFile = NoFile
    /\ dProc = [p \in Procs |-> ProcIdle]
    /\ dCalls = <<>>
    /\ dLog = EmptyDb

\* Most calculate_dominance_shift calls in SpecStore, one more than two
\* past HISTORY_LIMIT.
MaxStoreCalls == 12
\* Most calls of one run that end without a successful write of the store.
MaxStoreFaults == 1
\* Most hours that pass in SpecStore.
MaxStoreHours == 1
\* Most calls in SpecLock, and the seconds that pass there.
MaxLockCalls == 2
MaxLockSeconds == 6

\* Whether process p is between the yield and the finally of atomic_lock.
InBlock(p) == dProc[p].pc \in {"load", "save", "write", "replace"}

\* Calls that have ended, or will end, without a successful write: the calls
\* made, less the writes logged, less the calls not yet at their write.
Faults ==
    Len(dCalls) - SumFn([m \in Mints |-> Len(dLog[m])], Mints)
    - Cardinality({p \in Procs : dProc[p].pc \in {"open", "stale", "break", "load", "save"}})
FaultAllowed == Faults < MaxStoreFaults

\* line 118: a caller enters calculate_dominance_shift(mint, v); line 30:
\* start_time = time.time().
DomCall(p, mint, v) ==
    /\ dProc[p].pc \in {"idle", "done"}
    /\ dProc' = [dProc EXCEPT ![p] = [ProcIdle EXCEPT !.pc = "open",
                                         !.start = clock, !.mint = mint,
                                         !.val = v]]
    /\ dCalls' = Append(dCalls, v)
    /\ UNCHANGED <<clock, storeFile, lockFile, dLog>>

\* A caller of the tracker alone: the n-th call of a run passes the value
\* 10 + n, so that every stored sample tells which call wrote it.
DomBegin(p, mint, limit) ==
    /\ Len(dCalls) < limit
    /\ DomCall(p, mint, 10 + Len(dCalls) + 1)
    /\ UNCHANGED notDom

\* A mutated os.open step: a waiter that has timed out gives up the lock and
\* enters the block without it.
DomOpenProceedOnTimeout(p) ==
    /\ dProc[p].pc = "open"
    /\ IF lockFile = NoFile
       THEN /\ lockFile' = [k |-> "file", mtime |-> clock, owner |-> p]
            /\ dProc' = [dProc EXCEPT ![p].pc = "load", ![p].fd = TRUE,
                                      ![p].start = 0]
       ELSE /\ clock - dProc[p].start > LockTimeout
            /\ dProc' = [dProc EXCEPT ![p].pc = "load", ![p].timedout = TRUE]
            /\ UNCHANGED lockFile
    /\ UNCHANGED <<clock, storeFile, dCalls, dLog, notDom>>

\* lines 34-44, 51: os.open(LOCK_FILE, O_CREAT | O_EXCL | O_RDWR).  It creates
\* the file and the caller enters the block; or the file exists (EEXIST) and
\* the caller, once it has waited longer than the timeout, goes on to line
\* 44, else sleeps 0.1 s and tries again.  (start and, at the release, db are
\* locals that are dead from then on; they are reset.)
DomOpen(p) ==
    /\ dProc[p].pc = "open"
    /\ IF lockFile = NoFile
       THEN /\ lockFile' = [k |-> "file", mtime |-> clock, owner |-> p]
            /\ dProc' = [dProc EXCEPT ![p].pc = "load", ![p].fd = TRUE,
                                      ![p].start = 0]
       ELSE /\ clock - dProc[p].start > LockTimeout
            /\ dProc' = [dProc EXCEPT ![p].pc = "stale", ![p].timedout = TRUE]
            /\ UNCHANGED lockFile
    /\ UNCHANGED <<clock, storeFile, dCalls, dLog, notDom>>

\* lines 52-54: os.open fails with another OSError: it is raised out of
\* atomic_lock, before the with block is entered.
DomOpenError(p) ==
    /\ dProc[p].pc = "open"
    /\ FaultAllowed
    /\ dProc' = [dProc EXCEPT ![p].pc = "done", ![p].out = Raised,
                              ![p].start = 0]
    /\ UNCHANGED <<clock, storeFile, lockFile, dCalls, dLog, notDom>>

\* A mutated stale test: the waiter never judges the lock file stale.
DomStaleNeverBreaks(p) ==
    /\ dProc[p].pc = "stale"
    /\ dProc' = [dProc EXCEPT ![p].pc = "open"]
    /\ UNCHANGED <<clock, storeFile, lockFile, dCalls, dLog, notDom>>

\* A mutated stale test: a waiter that has timed out removes the lock file
\* whatever its age.
DomStaleIgnoresAge(p) ==
    /\ dProc[p].pc = "stale"
    /\ dProc' = [dProc EXCEPT ![p].pc =
                    IF lockFile # NoFile THEN "break" ELSE "open"]
    /\ UNCHANGED <<clock, storeFile, lockFile, dCalls, dLog, notDom>>

\* lines 43-50: the waiter has timed out.  If the lock file is there and its
\* mtime is older than the timeout it goes on to remove it; in any case it
\* then tries os.open again (continue).
DomStale(p) ==
    /\ dProc[p].pc = "stale"
    /\ dProc' = [dProc EXCEPT ![p].pc =
                    IF lockFile # NoFile /\ clock - lockFile.mtime > LockTimeout
                    THEN "break" ELSE "open"]
    /\ UNCHANGED <<clock, storeFile, lockFile, dCalls, dLog, notDom>>

\* line 46: os.remove(LOCK_FILE), of whatever file has that name by now (an
\* OSError for a file already gone is swallowed, line 47).
DomBreak(p) ==
    /\ dProc[p].pc = "break"
    /\ lockFile' = NoFile
    /\ dProc' = [dProc EXCEPT ![p].pc = "open"]
    /\ UNCHANGED <<clock, storeFile, dCalls, dLog, notDom>>

\* lines 122-138: load the store, take the time, append and trim in memory.
DomLoad(p) ==
    /\ dProc[p].pc = "load"
    /\ dProc' = [dProc EXCEPT ![p].pc = "save",
                              ![p].loaded = LoadDb(storeFile)[dProc[p].mint],
                              ![p].db = AppendSample(LoadDb(storeFile), dProc[p].mint,
                                                     clock, dProc[p].val)]
    /\ UNCHANGED <<clock, storeFile, lockFile, dCalls, dLog, notDom>>

\* line 71: open() of the store fails with an error _load_db does not catch
\* (not FileNotFoundError); it leaves the with block through its finally.
DomLoadError(p) ==
    /\ dProc[p].pc = "load"
    /\ FaultAllowed
    /\ dProc' = [dProc EXCEPT ![p].pc = "release", ![p].out = Raised]
    /\ UNCHANGED <<clock, storeFile, lockFile, dCalls, dLog, notDom>>

\* A mutated save: a failed write is raised to the caller.
DomSaveRaising(p, ok) ==
    /\ dProc[p].pc = "save"
    /\ ok \/ FaultAllowed
    /\ IF ok
       THEN /\ storeFile' = [k |-> "ok", data |-> dProc[p].db]
            /\ dLog' = [dLog EXCEPT ![dProc[p].mint] = Append(@, dProc[p].val)]
       ELSE UNCHANGED <<storeFile, dLog>>
    /\ dProc' = [dProc EXCEPT ![p].pc = "release", ![p].wrote = ok,
                              ![p].out = IF ok
                                         THEN ShiftResult(dProc[p].db[dProc[p].mint],
                                                          dProc[p].val)
                                         ELSE Raised]
    /\ UNCHANGED <<clock, lockFile, dCalls, notDom>>

\* lines 77-85, 139-178: _save_db writes the map to the .tmp file and renames
\* it over the store; a failure is logged and swallowed.  Then the result is
\* computed from the in-memory history.
DomSave(p, ok) ==
    /\ dProc[p].pc = "save"
    /\ ok \/ FaultAllowed
    /\ IF ok
       THEN /\ storeFile' = [k |-> "ok", data |-> dProc[p].db]
            /\ dLog' = [dLog EXCEPT ![dProc[p].mint] = Append(@, dProc[p].val)]
       ELSE UNCHANGED <<storeFile, dLog>>
    /\ dProc' = [dProc EXCEPT ![p].pc = "release", ![p].wrote = ok,
                              ![p].out = ShiftResult(dProc[p].db[dProc[p].mint],
                                                     dProc[p].val)]
    /\ UNCHANGED <<clock, lockFile, dCalls, notDom>>

\* _save_db step by step, for callers that may share the temporary file.
\* A file's content is a complete map ([k |-> "ok", data |-> db]), nothing
\* (Truncated) or the bytes of two writers mixed (Garbled).
Truncated == [k |-> "empty"]
Garbled == [k |-> "garbled"]
\* What a file holds after a writer has written its map from offset 0: the
\* map, or on top of a longer text already there, that text's tail as well.
Written(content, db) ==
    IF content.k = "ok"
    THEN {[k |-> "ok", data |-> db], Garbled}
    ELSE {[k |-> "ok", data |-> db]}

\* line 80: open(tmp, 'w') creates the temporary file or truncates the one
\* that has that name, whoever else has it open.
SaveOpen(p) ==
    /\ dProc[p].pc = "save"
    /\ tmpFile' = Truncated
    /\ dProc' = [dProc EXCEPT ![p].pc = "write", ![p].tfd = "tmp"]
    /\ UNCHANGED <<clock, storeFile, lockFile, dCalls, dLog, notSave>>

\* lines 80-81: json.dump and the close at the end of the with: the text is
\* written from offset 0 into the file the descriptor refers to.
SaveWrite(p) ==
    /\ dProc[p].pc = "write"
    /\ dProc' = [dProc EXCEPT ![p].pc = "replace", ![p].tfd = "none"]
    /\ CASE dProc[p].tfd = "tmp" ->
              /\ tmpFile' \in Written(tmpFile, dProc[p].db)
              /\ UNCHANGED storeFile
         [] dProc[p].tfd = "store" ->
              /\ storeFile' \in Written(storeFile, dProc[p].db)
              /\ UNCHANGED tmpFile
         [] OTHER -> UNCHANGED <<storeFile, tmpFile>>
    /\ UNCHANGED <<clock, lockFile, dCalls, dLog, notSave>>

\* lines 82-85, 139-178: os.replace(tmp, SNAPSHOT_FILE) gives the temporary
\* file the store's name; when no file has the temporary name any more the
\* FileNotFoundError is logged and swallowed.  Then the result is computed.
SaveReplace(p) ==
    /\ dProc[p].pc = "replace"
    /\ LET renamed == tmpFile # NoFile
           refers(q) == IF ~renamed THEN dProc[q].tfd
                        ELSE IF dProc[q].tfd = "tmp" THEN "store"
                        ELSE IF dProc[q].tfd = "store" THEN "gone"
                        ELSE dProc[q].tfd
       IN  /\ IF renamed
              THEN /\ storeFile' = tmpFile
                   /\ tmpFile' = NoFile
                   /\ dLog' = [dLog EXCEPT ![dProc[p].mint] = Append(@, dProc[p].val)]
              ELSE UNCHANGED <<storeFile, tmpFile, dLog>>
           /\ dProc' = [q \in Procs |->
                 IF q = p
                 THEN [dProc[p] EXCEPT !.pc = "release", !.wrote = renamed,
                                       !.out = ShiftResult(dProc[p].db[dProc[p].mint],
                                                           dProc[p].val)]
                 ELSE [dProc[q] EXCEPT !.tfd = refers(q)]]
    /\ UNCHANGED <<clock, lockFile, dCalls, notSave>>

\* lines 58-65: the finally of atomic_lock: close the descriptor and
\* os.remove(LOCK_FILE), of whatever file has that name by now.
DomRelease(p) ==
    /\ dProc[p].pc = "release"
    /\ lockFile' = NoFile
    /\ dProc' = [dProc EXCEPT ![p].pc = "done", ![p].fd = FALSE,
                              ![p].db = EmptyDb, ![p].loaded = <<>>,
                              ![p].wrote = FALSE]
    /\ UNCHANGED <<clock, storeFile, dCalls, dLog, notDom>>

\* The process of caller p dies between the yield and the end of the finally
\* of atomic_lock (lines 56-65): nothing of it runs any more, and whatever
\* file has the lock's name stays.
DomCrash(p) ==
    /\ InBlock(p) \/ dProc[p].pc = "release"
    /\ dProc' = [dProc EXCEPT ![p].pc = "crashed"]
    /\ UNCHANGED <<clock, storeFile, lockFile, dCalls, dLog, notDom>>

\* Time passes.
Tick(seconds, limit) ==
    /\ clock + seconds <= limit
    /\ clock' = clock + seconds
    /\ UNCHANGED <<storeFile, lockFile, dProc, dCalls, dLog, notDom>>

(***************************************************************************)
(* The Gateway: WhaleEngine._rpc_call (whale_engine.py) and fetch_rpc      *)
(* (solana_api.py).  One call is a loop of at most three posts; what the   *)
(* remote end answers to a post is the environment's choice.  Sleeps are   *)
(* carried in half seconds.                                                *)
(***************************************************************************)

MAX_RETRIES == 3
MAX_RPC_RETRIES == 3

GatewayFns == {"rpc_call", "fetch_rpc"}
GatewayCalls == {"g1", "g2"}
\* What a post can end in: a response without "error"; an exception of
\* client.post; a status that raise_for_status raises on; a response with
\* "error"; a response with "error" whose text holds "429".
Outcomes == {"ok", "transport", "status", "error", "rate_limit"}
Data == Val("data")

CallIdle == [fn |-> "rpc_call", pc |-> "idle", attempt |-> 0, sleep |-> 0,
             posts |-> 0, last |-> "none", out |-> NoResult]
GatewayIdle == gCall = [c \in GatewayCalls |-> CallIdle]

Pow2(n) == IF n = 0 THEN 1 ELSE IF n = 1 THEN 2 ELSE 4

\* whale_engine.py lines 34-45: one iteration of the loop, from the answer
\* to its post.
rpc_call(s, outcome) ==
    IF outcome = "ok"
    THEN [s EXCEPT !.pc = "done", !.out = Data]
    ELSE IF outcome = "rate_limit"
    THEN [s EXCEPT !.pc = "sleep", !.sleep = 2 * (1 + s.attempt)]
    ELSE IF outcome = "error"
    THEN [s EXCEPT !.pc = "done", !.out = Empty]
    ELSE [s EXCEPT !.pc = "sleep", !.sleep = Pow2(s.attempt)]

\* A mutated fetch_rpc iteration: the ValueError of the last attempt leaves
\* the function.
fetch_rpc_raising(s, outcome) ==
    IF outcome = "ok"
    THEN [s EXCEPT !.pc = "done", !.out = Data]
    ELSE IF outcome \in {"error", "rate_limit"}
    THEN IF s.attempt < MAX_RPC_RETRIES - 1
         THEN [s EXCEPT !.pc = "sleep", !.sleep = 2]
         ELSE [s EXCEPT !.pc = "done", !.out = Raised]
    ELSE IF s.attempt = MAX_RPC_RETRIES - 1
         THEN [s EXCEPT !.pc = "done", !.out = Empty]
         ELSE [s EXCEPT !.pc = "sleep", !.sleep = Pow2(s.attempt)]

\* solana_api.py lines 84-102: one iteration of the loop, from the answer to
\* its post.  The ValueError raised on the last attempt's error response is
\* caught by the except of the same try, which returns {} on the last attempt.
fetch_rpc(s, outcome) ==
    IF outcome = "ok"
    THEN [s EXCEPT !.pc = "done", !.out = Data]
    ELSE IF outcome \in {"error", "rate_limit"} /\ s.attempt < MAX_RPC_RETRIES - 1
    THEN [s EXCEPT !.pc = "sleep", !.sleep = 2]
    ELSE IF s.attempt = MAX_RPC_RETRIES - 1
         THEN [s EXCEPT !.pc = "done", !.out = Empty]
         ELSE [s EXCEPT !.pc = "sleep", !.sleep = Pow2(s.attempt)]

\* A caller enters one of the two functions: attempt = 0, first post.
GwStart(c, fn) ==
    /\ gCall[c].pc = "idle"
    /\ gCall' = [gCall EXCEPT ![c] = [CallIdle EXCEPT !.fn = fn, !.pc = "post"]]
    /\ UNCHANGED notGateway

\* The post of the current attempt is answered.
GwPost(c) ==
    /\ gCall[c].pc = "post"
    /\ \E outcome \in Outcomes :
         LET s == [gCall[c] EXCEPT !.posts = @ + 1, !.last = outcome]
         IN  gCall' = [gCall EXCEPT ![c] = IF s.fn = "rpc_call"
                                           THEN rpc_call(s, outcome)
                                           ELSE fetch_rpc(s, outcome)]
    /\ UNCHANGED notGateway

\* The sleep ends: the next iteration of range(3), or the return {} after
\* the loop (whale_engine.py line 46, solana_api.py line 103).
GwWake(c) ==
    /\ gCall[c].pc = "sleep"
    /\ LET limit == IF gCall[c].fn = "rpc_call" THEN MAX_RETRIES
                    ELSE MAX_RPC_RETRIES
       IN  gCall' = [gCall EXCEPT ![c] =
                IF gCall[c].attempt + 1 < limit
                THEN [@ EXCEPT !.pc = "post", !.attempt = @ + 1, !.sleep = 0]
                ELSE [@ EXCEPT !.pc = "done", !.attempt = @ + 1, !.sleep = 0,
                               !.out = Empty]]
    /\ UNCHANGED notGateway

GatewayNext ==
    \/ \E c \in GatewayCalls, fn \in GatewayFns : GwStart(c, fn)
    \/ \E c \in GatewayCalls : GwPost(c)
    \/ \E c \in GatewayCalls : GwWake(c)

(***************************************************************************)
(* solana_api.py: analyze_token.  One request of one process ("p1"): the   *)
(* four fetches, the supply score, then calculate_whale_pressure,          *)
(* calculate_dominance_shift and generate_behavior_verdict in turn.        *)
(* Amounts are in tokens, percentages in whole percents.                   *)
(***************************************************************************)

\* lines 46-72: what fetch_price_data returns; it raises nothing.
PriceResults == {[found |-> FALSE, price_change_1h |-> 0],
                 [found |-> TRUE, price_change_1h |-> 300]}
\* What fetch_rpc returns for getAccountInfo: {}, a response that is no
\* object of objects, or one with the decimals of the mint.
SecurityResponses == {Empty, Malformed, [k |-> "ok", decimals |-> 6]}
\* for getTokenSupply: the value's uiAmount
AnalyzeSupplyResponses ==
    {Empty, Malformed} \cup {[k |-> "ok", uiAmount |-> a] : a \in {0, 1000}}
\* for getTokenLargestAccounts: the uiAmounts of the accounts listed
AnalyzeHolderResponses ==
    {Empty, Malformed}
    \cup {[k |-> "ok", amounts |-> a] : a \in {<<>>, <<450>>, <<100, 50>>}}

\* lines 105-114: parse_token_amount on a value with a uiAmount, or on none
parse_token_amount(info) == IF info.k = "ok" THEN info.uiAmount ELSE 0

ReqIdleAnalyze == [pc |-> "idle", price_data |-> NoResult,
                   structural |-> NoResult, top1_percent |-> 0,
                   response |-> NoResult]
AnalyzeIdle == aReq = ReqIdleAnalyze

HttpError(code) == [status |-> code]

\* lines 120-124: the length test of the mint
AnStart(valid) ==
    /\ aReq.pc = "idle"
    /\ aReq' = IF valid THEN [aReq EXCEPT !.pc = "gather"]
               ELSE [aReq EXCEPT !.pc = "done", !.response = HttpError(400)]
    /\ UNCHANGED <<verdictVars, scoreVars, whaleVars, limiterVars, domVars,
                   gatewayVars, subVars, tmpVars, pureVars, payVars, usageVars, pairVars>>

\* lines 131-176: the four fetches return, the percentages and the supply
\* score are computed, and calculate_whale_pressure is called.
AnGather ==
    /\ aReq.pc = "gather"
    /\ \E price_data \in PriceResults, security_resp \in SecurityResponses,
          supply_resp \in AnalyzeSupplyResponses,
          holders_resp \in AnalyzeHolderResponses :
         IF \/ security_resp.k = "malformed"
            \/ supply_resp.k = "malformed"
            \/ holders_resp.k = "malformed"
         THEN \* .get on what is no dict: except Exception, line 211
              /\ aReq' = [aReq EXCEPT !.pc = "done", !.response = HttpError(500)]
              /\ UNCHANGED whaleVars
         ELSE LET parsed == parse_token_amount(supply_resp)
                  total_supply == IF parsed = 0 THEN 1 ELSE parsed
                  accounts == IF holders_resp.k = "ok" THEN holders_resp.amounts
                              ELSE <<>>
              IN  IF accounts = <<>>
                  THEN \* line 158
                       /\ aReq' = [aReq EXCEPT !.pc = "done",
                                               !.response = HttpError(404)]
                       /\ UNCHANGED whaleVars
                  ELSE LET top1 == Min(100, (accounts[1] * 100) \div total_supply)
                           top10 == Min(100, (SeqSum(accounts) * 100)
                                              \div total_supply)
                       IN  /\ aReq' = [aReq EXCEPT
                                  !.pc = "whale",
                                  !.price_data = price_data,
                                  !.top1_percent = top1,
                                  !.structural = calculate_supply_score(
                                                     top1, top10, Len(accounts))]
                           /\ wPhase' = "start"
                           /\ UNCHANGED <<wSupply, wWallets, wFlows, wFunders, wOut>>
    /\ UNCHANGED <<verdictVars, scoreVars, limiterVars, domVars, gatewayVars, subVars, tmpVars, pureVars, payVars, usageVars, pairVars>>

\* lines 176-179: calculate_whale_pressure has ended; if it raised, line 211
\* answers 500, else calculate_dominance_shift(mint, top1_percent) is called.
AnWhaleReturn ==
    /\ aReq.pc = "whale"
    /\ wPhase = "done"
    /\ IF wOut = Raised
       THEN /\ aReq' = [aReq EXCEPT !.pc = "done", !.response = HttpError(500)]
            /\ UNCHANGED domVars
       ELSE /\ aReq' = [aReq EXCEPT !.pc = "dominance"]
            /\ DomCall("p1", "m1", aReq.top1_percent)
    /\ UNCHANGED <<verdictVars, scoreVars, whaleVars, limiterVars, gatewayVars, subVars, tmpVars, pureVars, payVars, usageVars, pairVars>>

\* The fields generate_behavior_verdict reads, with its .get defaults.
VerdictArguments(structural, whale_data, dominance_data, price_data) ==
    [status          |-> structural.status,
     bundle_detected |-> whale_data.bundle_detected,
     pressure        |-> whale_data.pressure,
     slope           |-> dominance_data.slope,
     price_change    |-> price_data.price_change_1h,
     whale_flow      |-> IF "net_flow_percent_supply" \in DOMAIN whale_data
                         THEN whale_data.net_flow_percent_supply ELSE 0]

\* lines 179-213: calculate_dominance_shift has ended; if it raised, line
\* 211 answers 500, else the verdict is computed and the response returned.
AnDominanceReturn ==
    /\ aReq.pc = "dominance"
    /\ dProc["p1"].pc = "done"
    /\ aReq' = IF dProc["p1"].out = Raised
               THEN [aReq EXCEPT !.pc = "done", !.response = HttpError(500)]
               ELSE [aReq EXCEPT !.pc = "done", !.response =
                        [status |-> 200,
                         structural |-> aReq.structural,
                         whale_metrics |-> wOut,
                         dominance_metrics |-> dProc["p1"].out,
                         verdict |-> generate_behavior_verdict(
                                         VerdictArguments(aReq.structural, wOut,
                                                          dProc["p1"].out,
                                                          aReq.price_data))]]
    /\ UNCHANGED <<verdictVars, scoreVars, whaleVars, limiterVars, domVars,
                   gatewayVars, subVars, tmpVars, pureVars, payVars, usageVars, pairVars>>

AnalyzeNext ==
    \/ \E valid \in BOOLEAN : AnStart(valid)
    \/ AnGather
    \/ WhaleNext
    \/ AnWhaleReturn
    \/ DomOpen("p1")
    \/ DomOpenError("p1")
    \/ DomLoad("p1")
    \/ DomLoadError("p1")
    \/ \E ok \in BOOLEAN : DomSave("p1", ok)
    \/ DomRelease("p1")
    \/ AnDominanceReturn

(***************************************************************************)
(* user_manager.py, payment_session_manager.py, payment_engine.py and the  *)
(* upgrade flow of main.py                                                 *)
(*                                                                         *)
(* Two operating-system processes share the JSON files: the bot (main.py,  *)
(* whose handlers run one at a time on its event loop) and the payment     *)
(* engine (payment_engine.py, run_forever).  Each is carried by a record   *)
(* of pProc: its position pc, the arguments and locals of the call it is   *)
(* in, and the time its wait for session.lock began.  Time is the variable *)
(* clock (time.time(), in seconds), shared with dominance_tracker.py.      *)
(* The usage counters of check_status, which decide only the field         *)
(* "allowed" of a Free user, are not carried.                              *)
(***************************************************************************)

PayProcs == {"bot", "eng"}
Users    == {"u1", "u2"}
\* admin_ids of main.py: one administrator, who is not a paying user.
Admins   == {"u0"}
Wallets  == {"w1", "w2"}
\* The payments the Gateway lists for the master wallet.
Sigs     == {"s1", "s2"}
\* The payer that the balance deltas of each payment identify.
TxPayer  == [sig \in Sigs |-> "w1"]

PREMIUM_DURATION_SECONDS == 2592000
SESSION_TIMEOUT          == 1800
\* timeout of _lock, and the age at which it removes session.lock.
SessLockTimeout          == 5

\* A user without a record, and a record of premium_users.json.
NoRecord == [k |-> "absent"]
PremRecord(active, expires_at) ==
    [k |-> "rec", active |-> active, expires_at |-> expires_at]
\* A wallet without a session, and a pending session.
NoSession == [k |-> "absent"]
Session(user_id, payer_wallet, expires_at) ==
    [k |-> "session", user_id |-> user_id, payer_wallet |-> payer_wallet,
     expires_at |-> expires_at]
\* session.lock when it does not exist, and when it does.
NoLock == [k |-> "none"]
LockAt(mtime) == [k |-> "file", mtime |-> mtime]

\* A process outside every call.
PayProcIdle ==
    [pc |-> "idle", op |-> "none", user |-> "none", wallet |-> "none",
     sig |-> "none", start |-> 0, held |-> NoResult]

\* A user without a usage record, and a record of usage_data.json.
NoUsage == [k |-> "absent"]
UsageRecord(count, last_reset) ==
    [k |-> "rec", count |-> count, last_reset |-> last_reset]

UsageIdle ==
    /\ usageCache = [u \in Users |-> NoUsage]
    /\ usageFile = usageCache
    /\ winScans = [u \in Users |-> 0]

PayIdle ==
    /\ UsageIdle
    /\ premFile = [u \in Users |-> NoRecord]
    /\ premCache = [u \in Users |-> NoRecord]
    /\ ckOut = NoResult
    /\ sessFile = [w \in Wallets |-> NoSession]
    /\ usedFile = {}
    /\ txFile = {}
    /\ sessLock = NoLock
    /\ pProc = [x \in PayProcs |-> PayProcIdle]
    /\ grants = <<>>

\* ---- user_manager.py ----

\* check_status, lines 72-87: the type the premium cache gives the user
\* ("none" when the call goes on to the Free check).
PremiumCheck(cache, uid, now) ==
    IF cache[uid] # NoRecord /\ cache[uid].active /\ cache[uid].expires_at > now
    THEN "Premium" ELSE "none"

\* check_status, lines 84-87: the cache after an expired record was found.
ExpireInCache(cache, uid, now) ==
    IF cache[uid] # NoRecord /\ cache[uid].active /\ ~(cache[uid].expires_at > now)
    THEN [cache EXCEPT ![uid].active = FALSE]
    ELSE cache

DAILY_LIMIT  == 5
RESET_PERIOD == 86400

\* check_status, lines 90-102: the usage cache after the Free check: a
\* user without a record gets one, and a record whose window has run out
\* is reset.
WindowOver(cache, uid, now) ==
    cache[uid] # NoUsage /\ now - cache[uid].last_reset >= RESET_PERIOD
FreeCheck(cache, uid, now) ==
    IF cache[uid] = NoUsage \/ WindowOver(cache, uid, now)
    THEN [cache EXCEPT ![uid] = UsageRecord(0, now)]
    ELSE cache

\* What one check_status call does and returns, whoever calls it.  An
\* expired premium record is set inactive in the cache and _sync_premium
\* writes the whole cache over the file; a reset of the count is written
\* by _sync_usage.
CheckStatus(user_id) ==
    LET type == IF user_id \in Admins THEN "Admin"
                ELSE IF PremiumCheck(premCache, user_id, clock) = "Premium"
                     THEN "Premium" ELSE "Free"
        cache == IF user_id \in Admins THEN premCache
                 ELSE ExpireInCache(premCache, user_id, clock)
        usage == IF type = "Free" THEN FreeCheck(usageCache, user_id, clock)
                 ELSE usageCache
        reset == type = "Free" /\ WindowOver(usageCache, user_id, clock)
        count == IF type = "Free" THEN usage[user_id].count ELSE 0
    IN  /\ ckOut' = [user |-> user_id, type |-> type, at |-> clock,
                     ngrants |-> Len(grants),
                     allowed |-> (type # "Free" \/ count < DAILY_LIMIT),
                     usage |-> count]
        /\ premCache' = cache
        /\ premFile' = IF cache # premCache THEN cache ELSE premFile
        /\ usageCache' = usage
        /\ usageFile' = IF reset THEN usage ELSE usageFile
        /\ winScans' = IF reset THEN [winScans EXCEPT ![user_id] = 0]
                       ELSE winScans

\* One check_status call of the handlers start and upgrade_start.
check_status(user_id) ==
    /\ pProc["bot"].pc = "idle"
    /\ CheckStatus(user_id)
    /\ UNCHANGED <<sessFile, usedFile, txFile, sessLock, pProc, grants,
                   verdictVars, scoreVars, whaleVars, limiterVars, domVars,
                   gatewayVars, analyzeVars, subVars, tmpVars, pureVars, pairVars>>

\* The handler check of main.py, lines 187-197: the status is checked; a
\* user over the limit, or a command without an address, ends the
\* handler; otherwise the handler awaits the reply it sends.
CheckBegin(user_id, has_args) ==
    /\ pProc["bot"].pc = "idle"
    /\ CheckStatus(user_id)
    /\ pProc' = IF ckOut'.allowed /\ has_args
                THEN [pProc EXCEPT !["bot"] =
                        [PayProcIdle EXCEPT !.pc = "scan", !.op = "check",
                                            !.user = user_id, !.held = ckOut']]
                ELSE pProc
    /\ UNCHANGED <<sessFile, usedFile, txFile, sessLock, grants,
                   verdictVars, scoreVars, whaleVars, limiterVars, domVars,
                   gatewayVars, analyzeVars, subVars, tmpVars, pureVars, pairVars>>

\* increment_usage, lines 126-141: the usage cache after the call.
increment_usage(cache, prem, uid, now) ==
    IF uid \in Admins THEN cache
    ELSE IF PremiumCheck(prem, uid, now) = "Premium" THEN cache
    ELSE IF cache[uid] = NoUsage
         THEN [cache EXCEPT ![uid] = UsageRecord(1, now)]
         ELSE [cache EXCEPT ![uid].count = @ + 1]

\* The handler check, lines 199-212: the scan starts; increment_usage
\* counts it and _sync_usage writes the cache.  (The analysis request and
\* the report that follow change nothing here.)
CheckIncrement ==
    /\ pProc["bot"].pc = "scan"
    /\ LET b == pProc["bot"]
           usage == increment_usage(usageCache, premCache, b.user, clock)
       IN  /\ usageCache' = usage
           /\ usageFile' = IF usage # usageCache THEN usage ELSE usageFile
           /\ winScans' = IF b.held.type = "Free"
                          THEN [winScans EXCEPT ![b.user] = @ + 1]
                          ELSE winScans
    /\ pProc' = [pProc EXCEPT !["bot"] = PayProcIdle]
    /\ UNCHANGED <<premFile, premCache, ckOut, sessFile, usedFile, txFile,
                   sessLock, grants,
                   verdictVars, scoreVars, whaleVars, limiterVars, domVars,
                   gatewayVars, analyzeVars, subVars, tmpVars, pureVars, pairVars>>

\* ---- payment_session_manager.py: _lock ----

\* The process is inside a "with self._lock()" block.
InSessLock(x) ==
    pProc[x].pc \in {"get", "create_load", "create_save", "comp_load",
                     "comp_save", "comp_used", "unlock"}

\* One iteration of the wait loop, lines 38-51: the loop ends when
\* session.lock does not exist; a lock older than the limit is removed; a
\* wait longer than the timeout ends the loop with the lock in place.
\* (An iteration that changes nothing is the sleep of line 51.)
SessLockWait(x) ==
    /\ pProc[x].pc = "lock"
    /\ IF sessLock = NoLock
       THEN /\ pProc' = [pProc EXCEPT ![x].pc = "take"]
            /\ UNCHANGED sessLock
       ELSE LET old == clock - sessLock.mtime > SessLockTimeout
                late == clock - pProc[x].start > SessLockTimeout
            IN  /\ old \/ late
                /\ sessLock' = IF old THEN NoLock ELSE sessLock
                /\ pProc' = [pProc EXCEPT ![x].pc = IF late THEN "take" ELSE "lock"]
    /\ UNCHANGED <<premFile, premCache, ckOut, sessFile, usedFile, txFile,
                   grants, verdictVars, scoreVars, whaleVars, limiterVars,
                   domVars, gatewayVars, analyzeVars, subVars, tmpVars, pureVars, usageVars, pairVars>>

\* The position at which the block of each operation begins.
BlockStart(op) ==
    IF op = "create" THEN "create_load"
    ELSE IF op = "get" THEN "get"
    ELSE "comp_load"

\* Lines 54-57: open(LOCK_FILE, 'w') creates the file or truncates the one
\* that is there, and the block is entered.
SessLockTake(x) ==
    /\ pProc[x].pc = "take"
    /\ sessLock' = LockAt(clock)
    /\ pProc' = [pProc EXCEPT ![x].pc = BlockStart(pProc[x].op)]
    /\ UNCHANGED <<premFile, premCache, ckOut, sessFile, usedFile, txFile,
                   grants, verdictVars, scoreVars, whaleVars, limiterVars,
                   domVars, gatewayVars, analyzeVars, subVars, tmpVars, pureVars, usageVars, pairVars>>

\* Lines 58-64: the file is removed if it exists, whoever wrote it.  The
\* bot's handler ends; the engine goes on in verify_transaction: without a
\* session it returns None and run_forever marks the signature; with one
\* it activates; after complete_session it notifies and returns.
SessLockRelease(x) ==
    /\ pProc[x].pc = "unlock"
    /\ sessLock' = NoLock
    /\ pProc' = [pProc EXCEPT ![x] =
                   IF x = "bot" THEN PayProcIdle
                   ELSE IF pProc[x].op = "get" /\ pProc[x].user = "none"
                        THEN [@ EXCEPT !.pc = "mark"]
                   ELSE IF pProc[x].op = "get"
                        THEN [@ EXCEPT !.pc = "act_load"]
                   ELSE [@ EXCEPT !.pc = "mark"]]
    /\ UNCHANGED <<premFile, premCache, ckOut, sessFile, usedFile, txFile,
                   grants, verdictVars, scoreVars, whaleVars, limiterVars,
                   domVars, gatewayVars, analyzeVars, subVars, tmpVars, pureVars, usageVars, pairVars>>

\* ---- main.py: receive_wallet, and create_session ----

\* receive_wallet, lines 240-252: a wallet address of valid length arrives
\* from a user in the upgrade conversation; is_wallet_used reads
\* used_wallets.json without the lock.  A used wallet ends the handler;
\* otherwise create_session begins its wait for the lock.
receive_wallet(user_id, wallet) ==
    /\ pProc["bot"].pc = "idle"
    /\ pProc' = [pProc EXCEPT !["bot"] =
                   IF wallet \in usedFile THEN PayProcIdle
                   ELSE [PayProcIdle EXCEPT !.pc = "lock", !.op = "create",
                                            !.user = user_id, !.wallet = wallet,
                                            !.start = clock]]
    /\ UNCHANGED <<premFile, premCache, ckOut, sessFile, usedFile, txFile,
                   sessLock, grants, verdictVars, scoreVars, whaleVars,
                   limiterVars, domVars, gatewayVars, analyzeVars, subVars,
                   tmpVars, pureVars, usageVars, pairVars>>

\* create_session, line 94: the sessions are read.
CreateLoad ==
    /\ pProc["bot"].pc = "create_load"
    /\ pProc' = [pProc EXCEPT !["bot"].pc = "create_save",
                              !["bot"].held = sessFile]
    /\ UNCHANGED <<premFile, premCache, ckOut, sessFile, usedFile, txFile,
                   sessLock, grants, verdictVars, scoreVars, whaleVars,
                   limiterVars, domVars, gatewayVars, analyzeVars, subVars,
                   tmpVars, pureVars, usageVars, pairVars>>

\* create_session keeping the earlier sessions of the user.
clean_sessions_by_wallet(sessions, user_id, wallet) ==
    [k \in Wallets |->
        IF sessions[k] # NoSession /\ k # wallet
        THEN sessions[k] ELSE NoSession]

\* create_session, lines 97-100: the sessions kept.
clean_sessions(sessions, user_id, wallet) ==
    [k \in Wallets |->
        IF sessions[k] # NoSession /\ sessions[k].user_id # user_id /\ k # wallet
        THEN sessions[k] ELSE NoSession]

\* create_session, lines 102-113: the pending session is stored under the
\* wallet and the file written.
CreateSave ==
    /\ pProc["bot"].pc = "create_save"
    /\ LET b == pProc["bot"]
       IN  sessFile' = [clean_sessions(b.held, b.user, b.wallet) EXCEPT
                          ![b.wallet] = Session(b.user, b.wallet, clock + SESSION_TIMEOUT)]
    /\ pProc' = [pProc EXCEPT !["bot"].pc = "unlock"]
    /\ UNCHANGED <<premFile, premCache, ckOut, usedFile, txFile,
                   sessLock, grants, verdictVars, scoreVars, whaleVars,
                   limiterVars, domVars, gatewayVars, analyzeVars, subVars,
                   tmpVars, pureVars, usageVars, pairVars>>

\* ---- payment_engine.py: run_forever and verify_transaction ----

\* run_forever, lines 318-328: a signature the Gateway lists and
\* _is_processed does not know is passed to verify_transaction.
EngPoll(sig) ==
    /\ pProc["eng"].pc = "idle"
    /\ sig \notin txFile
    /\ pProc' = [pProc EXCEPT !["eng"] =
                   [PayProcIdle EXCEPT !.pc = "verify", !.sig = sig]]
    /\ UNCHANGED <<premFile, premCache, ckOut, sessFile, usedFile, txFile,
                   sessLock, grants, verdictVars, scoreVars, whaleVars,
                   limiterVars, domVars, gatewayVars, analyzeVars, subVars,
                   tmpVars, pureVars, usageVars, pairVars>>

\* verify_transaction, lines 190-284: the transaction is fetched and read.
\* Without a result, or without a payment found in it, the call returns
\* None; otherwise it has the payer and get_valid_session begins its wait.
EngVerify(valid) ==
    /\ pProc["eng"].pc = "verify"
    /\ pProc' = [pProc EXCEPT !["eng"] =
                   IF valid
                   THEN [@ EXCEPT !.pc = "lock", !.op = "get",
                                  !.wallet = TxPayer[pProc["eng"].sig], !.start = clock]
                   ELSE [@ EXCEPT !.pc = "mark"]]
    /\ UNCHANGED <<premFile, premCache, ckOut, sessFile, usedFile, txFile,
                   sessLock, grants, verdictVars, scoreVars, whaleVars,
                   limiterVars, domVars, gatewayVars, analyzeVars, subVars,
                   tmpVars, pureVars, usageVars, pairVars>>

\* get_valid_session without the expiry test of line 130.
GetValidSessionKeepExpired ==
    /\ pProc["eng"].pc = "get"
    /\ LET e == pProc["eng"]
           session == sessFile[e.wallet]
       IN  pProc' = [pProc EXCEPT !["eng"].pc = "unlock",
                        !["eng"].user = IF session = NoSession
                                        THEN "none" ELSE session.user_id]
    /\ UNCHANGED <<premFile, premCache, ckOut, sessFile, usedFile, txFile,
                   sessLock, grants, verdictVars, scoreVars, whaleVars,
                   limiterVars, domVars, gatewayVars, analyzeVars, subVars,
                   tmpVars, pureVars, usageVars, pairVars>>

\* get_valid_session, lines 122-135: no session gives None; an expired one
\* is deleted, the file written, and gives None; a valid one is returned.
GetValidSession ==
    /\ pProc["eng"].pc = "get"
    /\ LET e == pProc["eng"]
           session == sessFile[e.wallet]
           expired == session # NoSession /\ clock > session.expires_at
       IN  /\ sessFile' = IF expired THEN [sessFile EXCEPT ![e.wallet] = NoSession]
                          ELSE sessFile
           /\ pProc' = [pProc EXCEPT !["eng"].pc = "unlock",
                           !["eng"].user = IF session = NoSession \/ expired
                                           THEN "none" ELSE session.user_id]
    /\ UNCHANGED <<premFile, premCache, ckOut, usedFile, txFile,
                   sessLock, grants, verdictVars, scoreVars, whaleVars,
                   limiterVars, domVars, gatewayVars, analyzeVars, subVars,
                   tmpVars, pureVars, usageVars, pairVars>>

\* _activate_premium_direct, lines 137-139: premium_users.json is read,
\* and the time (kept in the field start).
ActivateLoad ==
    /\ pProc["eng"].pc = "act_load"
    /\ pProc' = [pProc EXCEPT !["eng"].pc = "act_write",
                              !["eng"].held = premFile,
                              !["eng"].start = clock]
    /\ UNCHANGED <<premFile, premCache, ckOut, sessFile, usedFile, txFile,
                   sessLock, grants, verdictVars, scoreVars, whaleVars,
                   limiterVars, domVars, gatewayVars, analyzeVars, subVars,
                   tmpVars, pureVars, usageVars, pairVars>>

\* _activate_premium_direct, lines 141-145: the new expiry.
new_expiry(data, uid, now) ==
    LET current_expiry == IF data[uid] # NoRecord /\ data[uid].active
                          THEN data[uid].expires_at ELSE 0
        base_time == IF current_expiry > now THEN current_expiry ELSE now
    IN  base_time + PREMIUM_DURATION_SECONDS

\* _activate_premium_direct, lines 147-153: the record is stored and the
\* file written; complete_session begins its wait for the lock.
ActivateWrite ==
    /\ pProc["eng"].pc = "act_write"
    /\ LET e == pProc["eng"]
           expiry == new_expiry(e.held, e.user, e.start)
       IN  /\ premFile' = [e.held EXCEPT ![e.user] = PremRecord(TRUE, expiry)]
           /\ grants' = Append(grants, [sig |-> e.sig, user |-> e.user,
                                        wallet |-> e.wallet, at |-> clock,
                                        expires_at |-> expiry])
    /\ pProc' = [pProc EXCEPT !["eng"].pc = "lock", !["eng"].op = "complete",
                              !["eng"].held = NoResult, !["eng"].start = clock]
    /\ UNCHANGED <<premCache, ckOut, sessFile, usedFile, txFile,
                   sessLock, verdictVars, scoreVars, whaleVars,
                   limiterVars, domVars, gatewayVars, analyzeVars, subVars,
                   tmpVars, pureVars, usageVars, pairVars>>

\* complete_session, line 144: the sessions are read.
CompleteLoad ==
    /\ pProc["eng"].pc = "comp_load"
    /\ pProc' = [pProc EXCEPT !["eng"].pc = "comp_save",
                              !["eng"].held = sessFile]
    /\ UNCHANGED <<premFile, premCache, ckOut, sessFile, usedFile, txFile,
                   sessLock, grants, verdictVars, scoreVars, whaleVars,
                   limiterVars, domVars, gatewayVars, analyzeVars, subVars,
                   tmpVars, pureVars, usageVars, pairVars>>

\* complete_session, lines 145-147: the wallet's session, if read, is
\* deleted and the file written.
CompleteSave ==
    /\ pProc["eng"].pc = "comp_save"
    /\ LET e == pProc["eng"]
       IN  sessFile' = IF e.held[e.wallet] # NoSession
                       THEN [e.held EXCEPT ![e.wallet] = NoSession]
                       ELSE sessFile
    /\ pProc' = [pProc EXCEPT !["eng"].pc = "comp_used", !["eng"].held = NoResult]
    /\ UNCHANGED <<premFile, premCache, ckOut, usedFile, txFile,
                   sessLock, grants, verdictVars, scoreVars, whaleVars,
                   limiterVars, domVars, gatewayVars, analyzeVars, subVars,
                   tmpVars, pureVars, usageVars, pairVars>>

\* complete_session, lines 150-153: the wallet joins used_wallets.json.
CompleteUsed ==
    /\ pProc["eng"].pc = "comp_used"
    /\ usedFile' = usedFile \cup {pProc["eng"].wallet}
    /\ pProc' = [pProc EXCEPT !["eng"].pc = "unlock"]
    /\ UNCHANGED <<premFile, premCache, ckOut, sessFile, txFile,
                   sessLock, grants, verdictVars, scoreVars, whaleVars,
                   limiterVars, domVars, gatewayVars, analyzeVars, subVars,
                   tmpVars, pureVars, usageVars, pairVars>>

\* run_forever, line 330, and _mark_processed: the signature joins
\* processed_transactions.json (the last 2000 are kept; the signatures
\* here are far fewer).
EngMark ==
    /\ pProc["eng"].pc = "mark"
    /\ txFile' = txFile \cup {pProc["eng"].sig}
    /\ pProc' = [pProc EXCEPT !["eng"] = PayProcIdle]
    /\ UNCHANGED <<premFile, premCache, ckOut, sessFile, usedFile,
                   sessLock, grants, verdictVars, scoreVars, whaleVars,
                   limiterVars, domVars, gatewayVars, analyzeVars, subVars,
                   tmpVars, pureVars, usageVars, pairVars>>

\* The engine process is killed in the middle of a cycle and started
\* again: its locals are gone, the files are as it left them.
EngRestart ==
    /\ pProc["eng"].pc # "idle"
    /\ pProc' = [pProc EXCEPT !["eng"] = PayProcIdle]
    /\ UNCHANGED <<premFile, premCache, ckOut, sessFile, usedFile, txFile,
                   sessLock, grants, verdictVars, scoreVars, whaleVars,
                   limiterVars, domVars, gatewayVars, analyzeVars, subVars,
                   tmpVars, pureVars, usageVars, pairVars>>

\* The steps of the bot through create_session.
BotSteps ==
    \/ SessLockWait("bot") \/ SessLockTake("bot") \/ SessLockRelease("bot")
    \/ CreateLoad \/ CreateSave

\* The steps of one run_forever cycle.
EngineSteps ==
    \/ \E sig \in Sigs : EngPoll(sig)
    \/ \E valid \in BOOLEAN : EngVerify(valid)
    \/ SessLockWait("eng") \/ SessLockTake("eng") \/ SessLockRelease("eng")
    \/ GetValidSession
    \/ ActivateLoad \/ ActivateWrite
    \/ CompleteLoad \/ CompleteSave \/ CompleteUsed
    \/ EngMark

(***************************************************************************)
(* whale_engine.py and behavior_verdict.py: one analysis computed on two   *)
(* sets of Gateway responses                                               *)
(*                                                                         *)
(* A set of responses is a record: supply (getTokenSupply), holders        *)
(* (getTokenLargestAccounts), per wallet its flow signature response with  *)
(* the transactions it lists and the responses of its funding trace, and   *)
(* the price change of the price collaborator.  The structural status and  *)
(* the dominance slope are held fixed at values that add nothing.          *)
(***************************************************************************)

\* lines 122-192 of calculate_whale_pressure on well-formed responses.
WhaleRun(r) ==
    LET total_supply == IF r.supply.k = "ok" /\ r.supply.uiAmount # 0
                        THEN r.supply.uiAmount ELSE 1
        n == IF r.holders.k = "ok" THEN r.holders.n ELSE 0
        top == Min(TopWallets, n)
    IN  IF n = 0 THEN WhaleNoAccounts
        ELSE WhaleResult(
                 [i \in 1..top |-> analyze_wallet_flow(r.flows[i]).v],
                 [i \in 1..top |-> find_funding_source(WalletAddrs[i],
                                       r.funds[i].sigs, r.funds[i].tx).v],
                 total_supply)

\* The risk score analyze_token reports for the responses.
RiskOfRun(r) ==
    generate_behavior_verdict(
        VerdictArguments([status |-> "Healthy Distribution"], WhaleRun(r),
                         [slope |-> 0],
                         [price_change_1h |-> r.price_change])).risk_score

\* The responses with one of them replaced by the empty result.
WithoutSupply(r)  == [r EXCEPT !.supply = Empty]
WithoutHolders(r) == [r EXCEPT !.holders = Empty]
WithoutFlowSigs(r, i) == [r EXCEPT !.flows[i] = Empty]
WithoutFlowTx(r, i, j) == [r EXCEPT !.flows[i].txs[j] = Empty]
WithoutFundSigs(r, i) == [r EXCEPT !.funds[i].sigs = Empty]
WithoutFundTx(r, i) == [r EXCEPT !.funds[i].tx = Empty]
Degraded(r) ==
    {WithoutSupply(r), WithoutHolders(r)}
    \cup {WithoutFlowSigs(r, i) : i \in DOMAIN r.flows}
    \cup UNION {{WithoutFlowTx(r, i, j) : j \in DOMAIN r.flows[i].txs} :
                   i \in DOMAIN r.flows}
    \cup {WithoutFundSigs(r, i) : i \in DOMAIN r.funds}
    \cup {WithoutFundTx(r, i) : i \in DOMAIN r.funds}

PairIdle == pairIn = NoInput /\ pairOut = NoResult

\* Both runs are computed.
ComparePair ==
    /\ pairIn # NoInput
    /\ pairOut = NoResult
    /\ pairOut' = [first |-> RiskOfRun(pairIn.first),
                   second |-> RiskOfRun(pairIn.second)]
    /\ UNCHANGED <<pairIn, verdictVars, scoreVars, whaleVars, limiterVars,
                   domVars, gatewayVars, analyzeVars, subVars, tmpVars,
                   pureVars, payVars, usageVars>>

(***************************************************************************)
(* whale_engine.py: one sub-task run alone on chosen responses             *)
(***************************************************************************)

\* Most signatures a signature response lists in SpecFlow: one more than
\* the five the sub-task inspects.
MaxFlowCheckSigs == 6
\* getTransaction responses in SpecFlow: none, malformed, a failed
\* transaction, and one that moved the wallet's balance from 10 to 20.
FlowCheckTxs ==
    {Empty, Malformed,
     [k |-> "ok", err |-> TRUE, pre |-> 10, post |-> 20],
     [k |-> "ok", err |-> FALSE, pre |-> 10, post |-> 20]}
FlowInputs ==
    {[fn |-> "flow", sigs |-> r] :
        r \in {Empty, Malformed}
              \cup {[k |-> "ok", txs |-> t] :
                       t \in SeqsUpTo(FlowCheckTxs, MaxFlowCheckSigs)}}
FundInputs ==
    {[fn |-> "fund", wallet |-> w, sigs |-> r, tx |-> t] :
        w \in {"W1", "W2"}, r \in FundSigResponses,
        t \in FundTxResponses("W1") \cup FundTxResponses("W2")}

SubIdle == subIn = NoInput /\ subOut = NoResult

\* The sub-task runs to its end on the responses chosen.
CallSubTask ==
    /\ subIn # NoInput
    /\ subOut = NoResult
    /\ subOut' = IF subIn.fn = "flow"
                 THEN analyze_wallet_flow(subIn.sigs)
                 ELSE find_funding_source(subIn.wallet, subIn.sigs, subIn.tx)
    /\ UNCHANGED <<subIn, notSub>>

(***************************************************************************)
(* Specifications                                                          *)
(***************************************************************************)

InitVerdict ==
    /\ vIn \in VerdictInputs /\ vOut = NoResult
    /\ ScoreIdle /\ WhaleIdle /\ LimiterIdle /\ DomIdle
    /\ GatewayIdle /\ PureIdle /\ PairIdle /\ PayIdle /\ AnalyzeIdle /\ SubIdle
SpecVerdict == InitVerdict /\ [][CallVerdict]_vars

InitScore ==
    /\ sIn \in ScoreInputs /\ sOut = NoResult
    /\ VerdictIdle /\ WhaleIdle /\ LimiterIdle /\ DomIdle
    /\ GatewayIdle /\ PureIdle /\ PairIdle /\ PayIdle /\ AnalyzeIdle /\ SubIdle
SpecScore == InitScore /\ [][CallScore]_vars

\* One calculate_whale_pressure call, from its first line.
InitWhale ==
    /\ wPhase = "start" /\ wSupply = 0 /\ wWallets = <<>>
    /\ wFlows = <<>> /\ wFunders = <<>> /\ wOut = NoResult
    /\ VerdictIdle /\ ScoreIdle /\ LimiterIdle /\ DomIdle
    /\ GatewayIdle /\ PureIdle /\ PairIdle /\ PayIdle /\ AnalyzeIdle /\ SubIdle
SpecWhale == InitWhale /\ [][WhaleNext]_vars

\* The aggregation of lines 149-192 on every list of up to 7 funding-trace
\* results: the call is at its gather with every sub-task returned.
BundleFunderResults == FunderAddrs \cup {None, "Established_User", "Self_Funded"}
InitBundle ==
    /\ wPhase = "gather" /\ wSupply = 1000 /\ wOut = NoResult
    /\ \E n \in 1..TopWallets :
         /\ wWallets = SubSeq(WalletAddrs, 1, n)
         /\ wFlows = [i \in 1..n |-> Val(0)]
         /\ wFunders \in [1..n -> {Val(f) : f \in BundleFunderResults}]
    /\ VerdictIdle /\ ScoreIdle /\ LimiterIdle /\ DomIdle
    /\ GatewayIdle /\ PureIdle /\ PairIdle /\ PayIdle /\ AnalyzeIdle /\ SubIdle
SpecBundle == InitBundle /\ [][WhaleAggregate]_vars

\* Concurrent analyses sharing the WhaleEngine singleton.
InitLimiter ==
    /\ LimiterIdle /\ VerdictIdle /\ ScoreIdle /\ WhaleIdle /\ DomIdle
    /\ GatewayIdle /\ PureIdle /\ PairIdle /\ PayIdle /\ AnalyzeIdle /\ SubIdle
SpecLimiter == InitLimiter /\ [][LimiterNext]_vars

\* SpecLimiter in which every Gateway call terminates (a posted request is
\* answered and a backoff sleep ends, so every _rpc_call returns and every
\* sub-task holding a permit comes to its end) and the event loop runs
\* every coroutine that is ready.  Requests need not start.
SpecLimiterFair ==
    /\ SpecLimiter
    /\ \A r \in Requests :
          /\ WF_vars(LimStep1Return(r))
          /\ WF_vars(LimGather(r))
          /\ WF_vars(LimTaskEnd(r))
          /\ WF_vars(LimWokenRuns(r))
          /\ WF_vars(LimJoin(r))

\* Calls of one process on one token, one after the other, hours apart.
InitStore ==
    /\ DomIdle /\ VerdictIdle /\ ScoreIdle /\ WhaleIdle /\ LimiterIdle
    /\ GatewayIdle /\ PureIdle /\ PairIdle /\ PayIdle /\ AnalyzeIdle /\ SubIdle
StoreNext ==
    \/ DomBegin("p1", "m1", MaxStoreCalls)
    \/ DomOpen("p1")
    \/ DomOpenError("p1")
    \/ DomLoad("p1")
    \/ DomLoadError("p1")
    \/ \E ok \in BOOLEAN : DomSave("p1", ok)
    \/ DomRelease("p1")
    \/ (dProc["p1"].pc \in {"idle", "done"}
            /\ Tick(SecondsPerHour, MaxStoreHours * SecondsPerHour))
SpecStore == InitStore /\ [][StoreNext]_vars

\* Calls of one process on one token with chosen values, hours apart, on a
\* store that is empty or already holds ten hourly samples of value 10.
TrendValues == {10, 12, 14, 16}
MaxTrendCalls == 4
MaxTrendHours == 3
TenSamples ==
    [i \in 1..HISTORY_LIMIT |->
        [ts |-> (i - HISTORY_LIMIT) * SecondsPerHour, val |-> 10]]
InitTrend ==
    /\ clock = 0 /\ lockFile = NoFile /\ tmpFile = NoFile
    /\ dProc = [p \in Procs |-> ProcIdle]
    /\ \/ storeFile = NoFile /\ dCalls = <<>> /\ dLog = EmptyDb
       \/ /\ storeFile = [k |-> "ok", data |-> [EmptyDb EXCEPT !["m1"] = TenSamples]]
          /\ dCalls = [i \in 1..HISTORY_LIMIT |-> 10]
          /\ dLog = [EmptyDb EXCEPT !["m1"] = [i \in 1..HISTORY_LIMIT |-> 10]]
    /\ VerdictIdle /\ ScoreIdle /\ WhaleIdle /\ LimiterIdle
    /\ GatewayIdle /\ PureIdle /\ PairIdle /\ PayIdle /\ AnalyzeIdle /\ SubIdle
\* The calls made since the initial state.
TrendCallsMade ==
    IF Len(dCalls) >= HISTORY_LIMIT THEN Len(dCalls) - HISTORY_LIMIT
    ELSE Len(dCalls)
TrendBegin ==
    /\ TrendCallsMade < MaxTrendCalls
    /\ \E v \in TrendValues : DomCall("p1", "m1", v)
    /\ UNCHANGED notDom
TrendNext ==
    \/ TrendBegin
    \/ DomOpen("p1")
    \/ DomLoad("p1")
    \/ DomSave("p1", TRUE)
    \/ DomRelease("p1")
    \/ (dProc["p1"].pc \in {"idle", "done"}
            /\ Tick(SecondsPerHour, MaxTrendHours * SecondsPerHour))
SpecTrend == InitTrend /\ [][TrendNext]_vars

\* Concurrent calls of several processes, seconds apart.
LockNext ==
    \/ \E p \in Procs, m \in Mints : DomBegin(p, m, MaxLockCalls)
    \/ \E p \in Procs : DomOpen(p)
    \/ \E p \in Procs : DomStale(p)
    \/ \E p \in Procs : DomBreak(p)
    \/ \E p \in Procs : DomLoad(p)
    \/ \E p \in Procs : DomSave(p, TRUE)
    \/ \E p \in Procs : DomRelease(p)
    \/ Tick(1, MaxLockSeconds)
SpecLock == InitStore /\ [][LockNext]_vars

\* Concurrent calls on one token, none of which dies: enough calls and
\* seconds for a caller to wait longer than the timeout behind two holds
\* that each end within it.
MaxHoldCalls == 3
MaxHoldSeconds == 6
HoldNext ==
    \/ \E p \in Procs : DomBegin(p, "m1", MaxHoldCalls)
    \/ \E p \in Procs : DomOpen(p)
    \/ \E p \in Procs : DomStale(p)
    \/ \E p \in Procs : DomBreak(p)
    \/ \E p \in Procs : DomLoad(p)
    \/ \E p \in Procs : DomSave(p, TRUE)
    \/ \E p \in Procs : DomRelease(p)
    \/ Tick(1, MaxHoldSeconds)
SpecHold == InitStore /\ [][HoldNext]_vars

\* Concurrent calls of which one may die inside the block.  Calls begin, and
\* the process dies, early enough for the seconds that remain to outlast the
\* timeout.  Every live process keeps running and time keeps passing.
MaxCrashCalls == 2
MaxCrashSeconds == 7
Crashed == {p \in Procs : dProc[p].pc = "crashed"}
\* The next step of the call of process p, wherever it is.
CrashRun(p) ==
    \/ DomOpen(p)
    \/ DomStale(p)
    \/ DomBreak(p)
    \/ DomLoad(p)
    \/ DomSave(p, TRUE)
    \/ DomRelease(p)
CrashNext ==
    \/ \E p \in Procs :
          /\ clock + LockTimeout + 1 <= MaxCrashSeconds
          /\ DomBegin(p, "m1", MaxCrashCalls)
    \/ \E p \in Procs : CrashRun(p)
    \/ \E p \in Procs :
          /\ Crashed = {}
          /\ (lockFile # NoFile /\ lockFile.owner = p)
                => lockFile.mtime + LockTimeout + 1 <= MaxCrashSeconds
          /\ DomCrash(p)
    \/ Tick(1, MaxCrashSeconds)
SpecCrash ==
    /\ InitStore /\ [][CrashNext]_vars
    /\ WF_vars(Tick(1, MaxCrashSeconds))
    /\ \A p \in Procs :
          /\ WF_vars(DomOpen(p) \/ DomStale(p) \/ DomBreak(p)
                        \/ DomLoad(p) \/ DomRelease(p))
          \* WF_vars(DomSave(p, TRUE)): that step is enabled exactly while
          \* the call is at its save, and it leaves it.
          /\ []<>(dProc[p].pc # "save")

\* Concurrent calls whose _save_db runs step by step; one process may die
\* inside the block.
MaxSaveCalls == 2
MaxSaveSeconds == 6
SaveNext ==
    \/ \E p \in Procs : DomBegin(p, "m1", MaxSaveCalls)
    \/ \E p \in Procs : DomOpen(p)
    \/ \E p \in Procs : DomStale(p)
    \/ \E p \in Procs : DomBreak(p)
    \/ \E p \in Procs : DomLoad(p)
    \/ \E p \in Procs : SaveOpen(p)
    \/ \E p \in Procs : SaveWrite(p)
    \/ \E p \in Procs : SaveReplace(p)
    \/ \E p \in Procs : DomRelease(p)
    \/ \E p \in Procs : Crashed = {} /\ DomCrash(p)
    \/ Tick(1, MaxSaveSeconds)
SpecSave == InitStore /\ [][SaveNext]_vars

\* Calls of the two pure functions, one after the other, by callers that
\* pass a price dictionary of their own or leave the default one to be used.
MaxPureCalls == 3
PureVerdictArgs ==
    {[status |-> st, whale_data |-> w, dominance_data |-> [slope |-> 6000]] :
        st \in {"Critical Centralization", "Healthy Distribution"},
        w \in {[pressure |-> "Strong Distribution", bundle_detected |-> FALSE,
                net_flow_percent_supply |-> -20],
               [pressure |-> "Neutral", bundle_detected |-> TRUE,
                net_flow_percent_supply |-> 20]}}
PurePriceData == {NoArgument} \cup {DictOf(dp) : dp \in {-300, 300}}
PureScoreArgs ==
    {[top1 |-> 45, top10 |-> 70, holders |-> 50],
     [top1 |-> 8, top10 |-> 25, holders |-> 1000],
     [top1 |-> 0, top10 |-> 0, holders |-> 2001]}
InitPure ==
    /\ PureIdle /\ PairIdle /\ PayIdle
    /\ VerdictIdle /\ ScoreIdle /\ WhaleIdle /\ LimiterIdle /\ DomIdle
    /\ GatewayIdle /\ AnalyzeIdle /\ SubIdle
PureNext ==
    \/ \E a \in PureVerdictArgs, pd \in PurePriceData :
          PureCallVerdict(a, pd, MaxPureCalls)
    \/ \E a \in PureScoreArgs : PureCallScore(a, MaxPureCalls)
SpecPure == InitPure /\ [][PureNext]_vars

\* One flow sub-task, one funding trace, on every response chosen.
InitFlow ==
    /\ subIn \in FlowInputs /\ subOut = NoResult
    /\ VerdictIdle /\ ScoreIdle /\ WhaleIdle /\ LimiterIdle /\ DomIdle
    /\ GatewayIdle /\ PureIdle /\ PairIdle /\ PayIdle /\ AnalyzeIdle
SpecFlow == InitFlow /\ [][CallSubTask]_vars
InitFund ==
    /\ subIn \in FundInputs /\ subOut = NoResult
    /\ VerdictIdle /\ ScoreIdle /\ WhaleIdle /\ LimiterIdle /\ DomIdle
    /\ GatewayIdle /\ PureIdle /\ PairIdle /\ PayIdle /\ AnalyzeIdle
SpecFund == InitFund /\ [][CallSubTask]_vars

\* Gateway calls side by side.  Every post is answered (the client's
\* timeout) and every sleep ends, so a call at a post or asleep moves on.
InitGateway ==
    /\ GatewayIdle /\ PureIdle /\ PairIdle /\ PayIdle /\ AnalyzeIdle /\ SubIdle
    /\ VerdictIdle /\ ScoreIdle /\ WhaleIdle /\ LimiterIdle /\ DomIdle
SpecGateway ==
    /\ InitGateway /\ [][GatewayNext]_vars
    /\ \A c \in GatewayCalls : WF_vars(GwPost(c)) /\ WF_vars(GwWake(c))

\* One analysis request from its arrival.
SpecAnalyze == InitStore /\ [][AnalyzeNext]_vars

\* The bot and the payment engine from empty files.
InitPay ==
    /\ VerdictIdle /\ ScoreIdle /\ WhaleIdle /\ LimiterIdle /\ DomIdle
    /\ GatewayIdle /\ PureIdle /\ PairIdle /\ PayIdle /\ AnalyzeIdle /\ SubIdle

\* SpecPremium: time moves in steps of fifteen days.
PremiumTick == 1296000
MaxPremiumTicks == 3
\* The bot starts with premium_users.json empty, or holding the record of
\* a user whose premium has fifteen days left; __init__ (user_manager.py,
\* line 21) loads the file into the cache.  Another user has then sent a
\* wallet through the upgrade flow and the session is pending.
InitPremium ==
    /\ VerdictIdle /\ ScoreIdle /\ WhaleIdle /\ LimiterIdle /\ DomIdle
    /\ GatewayIdle /\ PureIdle /\ PairIdle /\ AnalyzeIdle /\ SubIdle
    /\ premFile \in {[u \in Users |-> NoRecord],
                     [u \in Users |-> IF u = "u1" THEN PremRecord(TRUE, PremiumTick)
                                      ELSE NoRecord]}
    /\ premCache = premFile
    /\ UsageIdle
    /\ ckOut = NoResult
    /\ sessFile = [w \in Wallets |-> IF w = "w1" THEN Session("u2", "w1", SESSION_TIMEOUT)
                                     ELSE NoSession]
    /\ usedFile = {}
    /\ txFile = {}
    /\ sessLock = NoLock
    /\ pProc = [x \in PayProcs |-> PayProcIdle]
    /\ grants = <<>>
PremiumNext ==
    \/ \E u \in Users \cup Admins : check_status(u)
    \/ EngineSteps
    \/ Tick(PremiumTick, MaxPremiumTicks * PremiumTick)
\* The engine against the status checks of the bot, which is not
\* restarted.
SpecPremium == InitPremium /\ [][PremiumNext]_vars

\* SpecSession: time moves in steps of six seconds, past the limit of _lock.
SessionTick == 6
MaxSessionTicks == 1
SessionNext ==
    \/ \E u \in Users, w \in Wallets : receive_wallet(u, w)
    \/ BotSteps
    \/ EngineSteps
    \/ Tick(SessionTick, MaxSessionTicks * SessionTick)
\* The upgrade flow of the bot against the cycles of the engine.
SpecSession == InitPay /\ [][SessionNext]_vars

MaxEngineGrants == 3
MaxEngineSeconds == 6
\* A user's session for wallet w1 is pending when the engine starts.
InitEngine ==
    /\ VerdictIdle /\ ScoreIdle /\ WhaleIdle /\ LimiterIdle /\ DomIdle
    /\ GatewayIdle /\ PureIdle /\ PairIdle /\ AnalyzeIdle /\ SubIdle
    /\ premFile = [u \in Users |-> NoRecord]
    /\ premCache = premFile
    /\ UsageIdle
    /\ ckOut = NoResult
    /\ sessFile = [w \in Wallets |-> IF w = "w1" THEN Session("u1", "w1", SESSION_TIMEOUT)
                                     ELSE NoSession]
    /\ usedFile = {}
    /\ txFile = {}
    /\ sessLock = NoLock
    /\ pProc = [x \in PayProcs |-> PayProcIdle]
    /\ grants = <<>>
EngineNext ==
    \/ EngineSteps
    \/ Len(grants) < MaxEngineGrants /\ EngRestart
    \/ Tick(1, MaxEngineSeconds)
\* The engine alone, killed and started again at any point of a cycle.
SpecEngine == InitEngine /\ [][EngineNext]_vars

\* SpecMissing: two holders of a supply of 1000 tokens; each wallet's one
\* listed transaction sold 4 or 10 tokens or bought 10, and its funding
\* trace found one of two fee payers.
PairFlowTxs ==
    {[k |-> "ok", err |-> FALSE, pre |-> 10, post |-> q] : q \in {0, 6, 20}}
PairFunds ==
    {[sigs |-> [k |-> "ok", count |-> 1], tx |-> [k |-> "ok", signer |-> a]] :
        a \in FunderAddrs}
PairRuns ==
    {[supply |-> [k |-> "ok", uiAmount |-> 1000],
      holders |-> [k |-> "ok", n |-> 2],
      flows |-> <<[k |-> "ok", txs |-> <<t1>>], [k |-> "ok", txs |-> <<t2>>]>>,
      funds |-> <<f1, f2>>,
      price_change |-> dp] :
        t1 \in PairFlowTxs, t2 \in PairFlowTxs, f1 \in PairFunds,
        f2 \in PairFunds, dp \in {-300, 0, 300}}
InitMissing ==
    /\ VerdictIdle /\ ScoreIdle /\ WhaleIdle /\ LimiterIdle /\ DomIdle
    /\ GatewayIdle /\ PureIdle /\ PayIdle /\ AnalyzeIdle /\ SubIdle
    /\ \E r \in PairRuns : \E d \in Degraded(r) :
          pairIn = [first |-> r, second |-> d]
    /\ pairOut = NoResult
\* One analysis with complete responses against the same analysis with one
\* response missing.
SpecMissing == InitMissing /\ [][ComparePair]_vars

\* SpecUsage: time moves in steps of twelve hours, half a reset window.
UsageTick == 43200
MaxUsageTicks == 3
\* The bot starts with no premium user, or with the record of a user whose
\* premium has twelve hours left.
InitUsage ==
    /\ VerdictIdle /\ ScoreIdle /\ WhaleIdle /\ LimiterIdle /\ DomIdle
    /\ GatewayIdle /\ PureIdle /\ PairIdle /\ AnalyzeIdle /\ SubIdle
    /\ premFile \in {[u \in Users |-> NoRecord],
                     [u \in Users |-> IF u = "u1" THEN PremRecord(TRUE, UsageTick)
                                      ELSE NoRecord]}
    /\ premCache = premFile
    /\ UsageIdle
    /\ ckOut = NoResult
    /\ sessFile = [w \in Wallets |-> NoSession]
    /\ usedFile = {}
    /\ txFile = {}
    /\ sessLock = NoLock
    /\ pProc = [x \in PayProcs |-> PayProcIdle]
    /\ grants = <<>>
UsageNext ==
    \/ \E u \in {"u1"} \cup Admins, has_args \in BOOLEAN : CheckBegin(u, has_args)
    \/ CheckIncrement
    \/ check_status("u1")
    \/ Tick(UsageTick, MaxUsageTicks * UsageTick)
\* The commands of one user and of the administrator, handled one at a
\* time by the bot.
SpecUsage == InitUsage /\ [][UsageNext]_vars

\* SpecExpiry: time moves in steps of fifteen minutes, half the life of a
\* session.
ExpiryTick == 900
MaxExpiryTicks == 3
ExpiryNext ==
    \/ EngineSteps
    \/ Tick(ExpiryTick, MaxExpiryTicks * ExpiryTick)
\* The engine alone, from a pending session, while the session runs out.
SpecExpiry == InitEngine /\ [][ExpiryNext]_vars

(***************************************************************************)
(* Claims                                                                  *)
(***************************************************************************)

\* The causality adjustment as the specification states it.
CausalityAdjustment(dp, f) ==
    IF dp > 200 /\ f < -10 THEN 25
    ELSE IF dp < -200 /\ f < -10 THEN 10
    ELSE IF dp < -200 /\ f > 10 THEN -15
    ELSE 0

\* The sum of the independent contributions of one verdict input.
ContributionSum(in) ==
    (CASE in.status = "Critical Centralization" -> 40
       [] in.status = "High Concentration" -> 30
       [] in.status = "Moderate Concentration" -> 15
       [] OTHER -> 0)
    + (IF in.bundle_detected THEN 50 ELSE 0)
    + (CASE in.pressure = "Strong Distribution" -> 25
         [] in.pressure = "Distribution" -> 15
         [] OTHER -> 0)
    + (IF in.slope > 5000 THEN 20 ELSE 0)
    + CausalityAdjustment(in.price_change, in.whale_flow)

SpecTop1Penalty(t) ==
    CASE t > 40 -> 60
      [] t > 20 /\ t <= 40 -> 40
      [] t > 10 /\ t <= 20 -> 20
      [] t > 5 /\ t <= 10 -> 10
      [] OTHER -> 0

SpecTop10Penalty(t) ==
    CASE t > 60 -> 50
      [] t > 50 /\ t <= 60 -> 40
      [] t > 35 /\ t <= 50 -> 30
      [] t >= 20 /\ t <= 35 -> 20
      [] OTHER -> 0

SpecHolderAdjust(h) ==
    CASE h > 0 /\ h < 100 -> -20
      [] h >= 100 /\ h < 500 -> -10
      [] h > 2000 -> 5
      [] OTHER -> 0

FunderList == [i \in DOMAIN wFunders |-> wFunders[i].v]
RealFunders(funders) ==
    {f \in Range(funders) : f \notin {None, "Established_User", "Self_Funded"}}

\* C2: bundle_detected is true iff some real funder address (not
\* Established_User, Self_Funded or Unknown/None) occurs at least twice among
\* the funding-trace results; when detected, main_funder is a real funder
\* with the maximum occurrence count and bundle_size is that count.
C2_BundleIffRepeatedFunder ==
    (wPhase = "done" /\ wOut # Raised /\ wWallets # <<>>) =>
        /\ wOut.bundle_detected
              = (\E f \in RealFunders(FunderList) : CountOf(f, FunderList) >= 2)
        /\ wOut.bundle_detected =>
              /\ wOut.main_funder \in RealFunders(FunderList)
              /\ wOut.bundle_size = CountOf(wOut.main_funder, FunderList)
              /\ \A f \in RealFunders(FunderList) :
                    CountOf(f, FunderList) <= wOut.bundle_size

\* C2 witness: the seven results [A, A, B, Unknown, Established, Self, A]
\* were aggregated to main_funder A, size 3, detected.
C2_Witness ==
    /\ wPhase = "done"
    /\ FunderList = <<"FA", "FA", "FB", None, "Established_User", "Self_Funded", "FA">>
    /\ wOut.bundle_detected
    /\ wOut.main_funder = "FA"
    /\ wOut.bundle_size = 3

\* C7 (as claimed): a failing sub-task of one wallet never aborts the
\* analysis: no sub-task ends in a raised exception (it resolves to a
\* neutral value) and, once step 1 has produced the wallets, the call
\* returns a result.
C7_SubTaskFailureDegrades ==
    /\ \A i \in DOMAIN wFlows : wFlows[i] # Raised
    /\ \A i \in DOMAIN wFunders : wFunders[i] # Raised
    /\ (wPhase = "done" /\ wWallets # <<>>) => wOut # Raised

\* C6 (as claimed): at every moment at most 5 Gateway calls are in flight
\* over all callers of calculate_whale_pressure, and every call in flight,
\* the step-1 fetches included, was issued by a holder of a limiter permit.
C6_AllGatewayCallsGated ==
    /\ CallsInFlight <= CONCURRENCY_LIMIT
    /\ CallsInFlight <= PermitsHeld
    /\ \A r \in Requests : lReq[r].s1call = 0

\* The stored history of a token and its values.
Stored(m) == LoadDb(storeFile)[m]
ValuesOf(history) == [i \in DOMAIN history |-> history[i].val]
\* The last min(Len(s), n) elements of s.
LastN(s, n) == SubSeq(s, Len(s) - Min(Len(s), n) + 1, Len(s))
NonDecreasingTs(history) ==
    \A i \in 1..(Len(history) - 1) : history[i].ts <= history[i + 1].ts

\* C4 (as claimed): in every interleaving of concurrent calls, a holder that
\* overstays the timeout included, at no time are two callers both inside
\* the atomic_lock block.
C4_MutualExclusion == Cardinality({p \in Procs : InBlock(p)}) <= 1

\* C5 (as claimed): after any sequence of n calls for one token with values
\* v1..vn the stored history has at most 10 entries, its values are exactly
\* the last min(n,10) of v1..vn in call order, and its timestamps are
\* non-decreasing.
C5_HistoryIsLastTenCalls ==
    dProc["p1"].pc \in {"idle", "done"} =>
        /\ Len(Stored("m1")) <= HISTORY_LIMIT
        /\ ValuesOf(Stored("m1")) = LastN(dCalls, HISTORY_LIMIT)
        /\ NonDecreasingTs(Stored("m1"))

\* C5 (amended): at every moment the stored history of the token has at most
\* 10 entries, its values are exactly the last min(m,10), in call order, of
\* the values of the m calls whose write of the store succeeded, and its
\* timestamps are non-decreasing.
C5_HistoryIsLastTenWrites ==
    /\ Len(Stored("m1")) <= HISTORY_LIMIT
    /\ ValuesOf(Stored("m1")) = LastN(dLog["m1"], HISTORY_LIMIT)
    /\ NonDecreasingTs(Stored("m1"))

\* C5 witness: twelve calls, one of which wrote nothing; the eleven writes
\* evicted the oldest sample and the store holds the last ten.
C5_Witness ==
    /\ dProc["p1"].pc = "done"
    /\ Len(dCalls) = 12
    /\ Len(dLog["m1"]) = 11
    /\ Len(Stored("m1")) = HISTORY_LIMIT
    /\ ValuesOf(Stored("m1")) = Tail(dLog["m1"])

\* C10 (as claimed): a caller that has not acquired the lock within the
\* timeout proceeds into the load, append, trim and persist sequence without
\* the lock: the step it takes when it finds the lock file present after
\* more than 5 s of waiting enters the block.
C10_TimeoutProceedsWithoutLock ==
    [][\A p \in Procs :
          ( /\ dProc[p].pc = "open"
            /\ lockFile # NoFile
            /\ clock - dProc[p].start > LockTimeout
            /\ dProc'[p] # dProc[p] )
          => dProc'[p].pc = "load"]_vars

\* C10 (amended): a caller that has timed out never enters the sequence
\* without acquiring: it is inside the block only after its own os.open has
\* created the lock file (lock_fd is set), and while it is at the stale test
\* or about to remove the lock file it has waited longer than the timeout
\* and holds no descriptor.
C10_TimedOutCallerStillAcquires ==
    \A p \in Procs :
        /\ (InBlock(p) \/ dProc[p].pc = "release") => dProc[p].fd
        /\ dProc[p].pc \in {"stale", "break"} =>
              /\ dProc[p].timedout
              /\ ~dProc[p].fd
              /\ clock - dProc[p].start > LockTimeout

\* C10 witness: a caller that timed out is inside the block, having created
\* the lock file itself after removing the stale one.
C10_Witness ==
    \E p \in Procs :
        /\ InBlock(p)
        /\ dProc[p].timedout
        /\ dProc[p].fd
        /\ lockFile # NoFile /\ lockFile.owner = p

\* C8: whatever the remote end answers, a Gateway call posts at most three
\* times, never raises to its caller, returns the empty result when its last
\* post did not succeed (all three attempts exhausted included), and a call
\* under way always comes to its return.
C8_GatewayCallBoundedAndTotal ==
    /\ [](\A c \in GatewayCalls :
            /\ gCall[c].posts <= 3
            /\ gCall[c].out # Raised
            /\ gCall[c].pc = "done" =>
                  /\ gCall[c].out \in {Data, Empty}
                  /\ gCall[c].last # "ok" => gCall[c].out = Empty
                  /\ gCall[c].last = "ok" => gCall[c].out = Data)
    /\ \A c \in GatewayCalls :
          (gCall[c].pc \in {"post", "sleep"}) ~> (gCall[c].pc = "done")

\* C8 witness: a call of each function has returned the empty result after
\* three failed posts.
C8_Witness ==
    /\ gCall["g1"].fn = "rpc_call" /\ gCall["g2"].fn = "fetch_rpc"
    /\ \A c \in GatewayCalls :
          /\ gCall[c].pc = "done"
          /\ gCall[c].posts = 3
          /\ gCall[c].last # "ok"
          /\ gCall[c].out = Empty

\* C9 (as claimed): a request for a valid token identifier completes with a
\* verdict: neither calculate_whale_pressure nor calculate_dominance_shift
\* ends in a raised error, and the response is no error response.
C9_RequestAlwaysYieldsVerdict ==
    /\ wOut # Raised
    /\ dProc["p1"].out # Raised
    /\ (aReq.pc = "done" /\ aReq.response # HttpError(400))
          => aReq.response.status = 200

\* Whether a getTransaction response is a transaction that did not fail.
NonFailed(tx) == tx.k = "ok" /\ ~tx.err
\* The indices of the first n transactions of txs that satisfy NonFailed.
RECURSIVE FirstNonFailed(_, _, _)
FirstNonFailed(txs, i, n) ==
    IF i > Len(txs) \/ n = 0 THEN {}
    ELSE IF NonFailed(txs[i]) THEN {i} \cup FirstNonFailed(txs, i + 1, n - 1)
    ELSE FirstNonFailed(txs, i + 1, n)
\* post - pre of a transaction that did not fail, 0 of any other.
Contribution(tx) == IF NonFailed(tx) THEN tx.post - tx.pre ELSE 0
ListedTxs == IF subIn.sigs.k = "ok" THEN subIn.sigs.txs ELSE <<>>

\* C11 (as claimed): the flow sub-task returns the sum of post - pre over the
\* 5 most recent non-failed transactions among those listed; failed or
\* unparseable transactions contribute 0 and use up none of the 5 slots.
C11_FlowOverFiveNonFailed ==
    (subIn # NoInput /\ subIn.fn = "flow" /\ subOut # NoResult) =>
        subOut = Val(SumFn([i \in DOMAIN ListedTxs |-> Contribution(ListedTxs[i])],
                           FirstNonFailed(ListedTxs, 1, 5)))

\* C11 (amended): the flow sub-task inspects the first 5 signatures listed,
\* failed or not: it returns the sum of post - pre over those of them that
\* did not fail, a failed transaction or an empty lookup contributing 0 and
\* using its slot; it raises when the signature list or one of the inspected
\* transactions lacks a field the code indexes.
C11_FlowOverFirstFiveListed ==
    (subIn # NoInput /\ subIn.fn = "flow" /\ subOut # NoResult) =>
        LET inspected == 1..Min(5, Len(ListedTxs))
        IN  IF \/ subIn.sigs.k = "malformed"
               \/ \E i \in inspected : ListedTxs[i].k = "malformed"
            THEN subOut = Raised
            ELSE subOut = Val(SumFn([i \in DOMAIN ListedTxs |->
                                        Contribution(ListedTxs[i])], inspected))

\* C11 witness: six transactions listed, the newest failed and the other
\* five moving 10 tokens each: the sub-task returned 40, not 50.
C11_Witness ==
    /\ subIn # NoInput /\ subIn.fn = "flow" /\ subIn.sigs.k = "ok"
    /\ Len(subIn.sigs.txs) = 6
    /\ subIn.sigs.txs[1].k = "ok" /\ subIn.sigs.txs[1].err
    /\ \A i \in 2..6 : NonFailed(subIn.sigs.txs[i])
    /\ subOut = Val(40)

Returned(p) == dProc[p].pc = "release" /\ dProc[p].out # Raised
IsInitial(out) ==
    out.regime = "Initial" /\ out.status = "First Record" /\ out.shift = 0

\* C13 (as claimed): a call on a token with no stored history returns
\* Initial / First Record / shift 0 and leaves exactly one sample of the
\* token in the store; a call on a token with a stored sample never returns
\* Initial or First Record.
C13_FirstRecordLeavesOneSample ==
    Returned("p1") =>
        LET c == dProc["p1"]
        IN  /\ c.loaded = <<>> => IsInitial(c.out) /\ Len(Stored(c.mint)) = 1
            /\ c.loaded # <<>> =>
                  c.out.regime # "Initial" /\ c.out.status # "First Record"

\* C13 (amended): a call on a token with no stored history returns Initial /
\* First Record / shift 0, and leaves exactly its own sample in the store if
\* its write succeeded and no sample if the write failed; a call on a token
\* with a stored sample never returns Initial or First Record.
C13_FirstRecordOnFreshToken ==
    Returned("p1") =>
        LET c == dProc["p1"]
        IN  /\ c.loaded = <<>> =>
                  /\ IsInitial(c.out)
                  /\ ValuesOf(Stored(c.mint)) = IF c.wrote THEN <<c.val>> ELSE <<>>
            /\ c.loaded # <<>> =>
                  c.out.regime # "Initial" /\ c.out.status # "First Record"

\* C13 witness: the first call's write failed, so the second call too found
\* the token fresh: it returned First Record and left its one sample.
C13_Witness ==
    /\ Returned("p1")
    /\ Len(dCalls) = 2
    /\ dProc["p1"].loaded = <<>>
    /\ dProc["p1"].wrote
    /\ IsInitial(dProc["p1"].out)
    /\ ValuesOf(Stored("m1")) = <<dProc["p1"].val>>

Deviations(history) ==
    LET n == Len(history)
        x == [i \in 1..n |-> (history[i].ts - history[1].ts) \div SecondsPerHour]
        y == [i \in 1..n |-> history[i].val]
        sx == [i \in 1..n |-> n * x[i] - SeqSum(x)]
        sy == [i \in 1..n |-> n * y[i] - SeqSum(y)]
    IN  [covariance |-> SeqSum([i \in 1..n |-> sx[i] * sy[i]]),
         spread     |-> SeqSum([i \in 1..n |-> sx[i] * sx[i]]),
         variation  |-> SeqSum([i \in 1..n |-> sy[i] * sy[i]]),
         cube       |-> n * n * n]
HourlyFrom(history, values) ==
    /\ ValuesOf(history) = values
    /\ \A i \in DOMAIN history :
          history[i].ts - history[1].ts = (i - 1) * SecondsPerHour

\* C15: on every call that found a stored sample the regime follows, by
\* priority, from the least-squares slope of the kept values against the
\* hours since the first kept sample and from their population standard
\* deviation: slope > 0.5 Aggressive Consolidation, slope < -0.5 Rapid
\* Dilution, else volatility > 2.0 Volatile Reallocation, else Stable; the
\* slope is 0 when all timestamps coincide; values 10, 12, 14, 16 one hour
\* apart give slope 2.0 and Aggressive Consolidation.
C15_RegimeByPriority ==
    (Returned("p1") /\ dProc["p1"].loaded # <<>>) =>
        LET c == dProc["p1"]
            history == c.db[c.mint]
            d == Deviations(history)
            rising == d.spread # 0 /\ 2 * d.covariance > d.spread
            falling == d.spread # 0 /\ 2 * d.covariance < -d.spread
            volatile == d.variation > 4 * d.cube
        IN  /\ c.out.regime = IF rising THEN "Aggressive Consolidation"
                              ELSE IF falling THEN "Rapid Dilution"
                              ELSE IF volatile THEN "Volatile Reallocation"
                              ELSE "Stable"
            /\ d.spread = 0 => c.out.slope = 0
            /\ (c.out.slope > 5000) = rising
            /\ HourlyFrom(history, <<10, 12, 14, 16>>) =>
                  c.out.slope = 20000 /\ c.out.regime = "Aggressive Consolidation"

\* C15 witness: the values 10, 12, 14, 16 were fed one hour apart; the
\* fourth call returned slope 2.0, Aggressive Consolidation.
C15_Witness ==
    /\ Returned("p1")
    /\ HourlyFrom(dProc["p1"].db["m1"], <<10, 12, 14, 16>>)
    /\ dProc["p1"].out.slope = 20000
    /\ dProc["p1"].out.regime = "Aggressive Consolidation"

\* The correlation verdict and score adjustment as the specification's
\* table states them, for price change dp and net flow f in hundredths.
CorrelationTable(dp, f) ==
    IF dp > 200
    THEN (IF f > 10 THEN [corr |-> "Whale Driven Pump", adj |-> 0]
          ELSE IF f < -10
          THEN [corr |-> "Divergence: Whales Selling into Pump", adj |-> 25]
          ELSE [corr |-> "Organic/Retail Rally", adj |-> 0])
    ELSE IF dp < -200
    THEN (IF f < -10 THEN [corr |-> "Whale Driven Dump", adj |-> 10]
          ELSE IF f > 10 THEN [corr |-> "Whales Absorbing the Dip", adj |-> -15]
          ELSE [corr |-> "Retail Panic Sell", adj |-> 0])
    ELSE [corr |-> "Neutral / Low Volatility", adj |-> 0]
\* The contributions of the rules before the causality layer.
NonCausalSum(in) ==
    ContributionSum(in) - CausalityAdjustment(in.price_change, in.whale_flow)

\* C16: the verdict carries exactly the correlation verdict the table gives
\* for (dp, f), and the causality layer moves the raw score by exactly the
\* table's adjustment (+0, +25, +0, +10, -15, +0, +0).
C16_CorrelationVerdictTable ==
    vOut # NoResult =>
        LET t == CorrelationTable(vIn.price_change, vIn.whale_flow)
        IN  /\ vOut.correlation_verdict = t.corr
            /\ vOut.raw_score - NonCausalSum(vIn) = t.adj

\* C16 witness: price up 2.01 % with whales selling 0.11 % of supply gave
\* the divergence verdict and +25.
C16_Witness ==
    /\ vOut # NoResult
    /\ vIn.price_change = 201 /\ vIn.whale_flow = -11
    /\ vOut.correlation_verdict = "Divergence: Whales Selling into Pump"
    /\ vOut.raw_score - NonCausalSum(vIn) = 25

\* The worked example of the synthesis: every rule of the first four layers
\* triggered and the price rose 3.0 % while whales sold 0.2 % of supply.
VerdictExample ==
    [status |-> "Critical Centralization", bundle_detected |-> TRUE,
     pressure |-> "Strong Distribution", slope |-> 6000,
     price_change |-> 300, whale_flow |-> -20]

\* C17: label and intensity are determined by the clamped risk score through
\* the thresholds 80, 50, 25, and the worked example yields raw 160, score
\* 100, Critical / HIGH RUG RISK and the divergence verdict.
C17_LabelFromClampedScore ==
    vOut # NoResult =>
        /\ vOut.risk_score \in 0..100
        /\ (vOut.risk_score >= 80 =>
                /\ vOut.risk_intensity = "Critical"
                /\ vOut.verdict_label = "HIGH RUG RISK")
        /\ (vOut.risk_score >= 50 /\ vOut.risk_score < 80 =>
                /\ vOut.risk_intensity = "High"
                /\ vOut.verdict_label = "CAUTION ADVISED")
        /\ (vOut.risk_score >= 25 /\ vOut.risk_score < 50 =>
                /\ vOut.risk_intensity = "Medium"
                /\ vOut.verdict_label = "MODERATE RISK")
        /\ (vOut.risk_score < 25 =>
                /\ vOut.risk_intensity = "Low"
                /\ vOut.verdict_label = "STABLE / HEALTHY")
        /\ (vIn = VerdictExample =>
                /\ vOut.raw_score = 160
                /\ vOut.risk_score = 100
                /\ vOut.risk_intensity = "Critical"
                /\ vOut.verdict_label = "HIGH RUG RISK"
                /\ vOut.correlation_verdict
                       = "Divergence: Whales Selling into Pump")

\* C17 witness: the worked example was evaluated and clamped from 160 to 100.
C17_Witness ==
    /\ vOut # NoResult
    /\ vIn = VerdictExample
    /\ vOut.raw_score = 160 /\ vOut.risk_score = 100
    /\ vOut.verdict_label = "HIGH RUG RISK"

NoAnomalies == <<"No major anomalies detected.">>
\* 1 when a layer changed the risk score, else 0, for the five layers in
\* evaluation order.
RuleTriggered(in) ==
    << IF in.status \in {"Critical Centralization", "High Concentration",
                         "Moderate Concentration"} THEN 1 ELSE 0,
       IF in.bundle_detected THEN 1 ELSE 0,
       IF in.pressure \in {"Strong Distribution", "Distribution"}
       THEN 1 ELSE 0,
       IF in.slope > 5000 THEN 1 ELSE 0,
       IF CausalityAdjustment(in.price_change, in.whale_flow) # 0
       THEN 1 ELSE 0 >>
\* The sentences of the rules that carry one, in evaluation order.
RuleSentences(in) ==
    (CASE in.status = "Critical Centralization"
              -> <<"Extreme centralization.">>
       [] in.status = "High Concentration"
              -> <<"High holder concentration.">>
       [] OTHER -> <<>>)
    \o (IF in.bundle_detected THEN <<"INSIDER BUNDLE DETECTED.">> ELSE <<>>)
    \o (IF in.pressure = "Strong Distribution"
        THEN <<"Whales dumping.">> ELSE <<>>)
    \o (IF in.slope > 5000
        THEN <<"Top holder accumulating fast.">> ELSE <<>>)
    \o (IF in.price_change > 200 /\ in.whale_flow < -10
        THEN <<"Exit liquidity trap detected.">>
        ELSE IF in.price_change < -200 /\ in.whale_flow > 10
        THEN <<"Smart money buying the dip.">>
        ELSE <<>>)

\* C18 as stated: the rationale has one sentence for every rule that
\* changed the risk score, and is the no-anomalies sentence exactly when
\* no rule changed it.
C18_SentencePerScoringRule ==
    vOut # NoResult =>
        LET n == SeqSum(RuleTriggered(vIn))
        IN  /\ (n = 0 <=> vOut.verdict_description = NoAnomalies)
            /\ (n > 0 => Len(vOut.verdict_description) = n)

\* C18 amended: the rationale is, in evaluation order, the sentences of the
\* rules that carry one (Critical Centralization, High Concentration,
\* bundle, Strong Distribution, slope, divergence, absorbing the dip); the
\* rules Moderate Concentration (+15), Distribution (+15) and Whale Driven
\* Dump (+10) change the score without a sentence; the no-anomalies sentence
\* stands exactly when no sentence-carrying rule triggered.
C18_SentencePerSentenceRule ==
    vOut # NoResult =>
        /\ vOut.verdict_description
               = (IF RuleSentences(vIn) = <<>> THEN NoAnomalies
                  ELSE RuleSentences(vIn))
        /\ (vOut.verdict_description = NoAnomalies
                <=> RuleSentences(vIn) = <<>>)

\* C18 witness: three rules raised the score to 40 (moderate concentration,
\* distribution, whale driven dump) and the rationale is the no-anomalies
\* sentence.
C18_Witness ==
    /\ vOut # NoResult
    /\ vIn.status = "Moderate Concentration" /\ ~vIn.bundle_detected
    /\ vIn.pressure = "Distribution" /\ vIn.slope <= 5000
    /\ vIn.price_change < -200 /\ vIn.whale_flow < -10
    /\ vOut.raw_score = 40
    /\ vOut.verdict_description = NoAnomalies

\* C19: the structural status is determined by the clamped score through
\* the thresholds 85, 65, 40; (45, 70, 50) gives raw -30, score 0, Critical;
\* (8, 25, 1000) gives score 70, Moderate.
C19_StatusFromClampedScore ==
    sOut # NoResult =>
        /\ (sOut.score >= 85 => sOut.status = "Healthy Distribution")
        /\ (sOut.score >= 65 /\ sOut.score < 85
                => sOut.status = "Moderate Concentration")
        /\ (sOut.score >= 40 /\ sOut.score < 65
                => sOut.status = "High Concentration")
        /\ (sOut.score < 40 => sOut.status = "Critical Centralization")
        /\ (sIn = [top1 |-> 45, top10 |-> 70, holders |-> 50]
                => /\ sOut.raw = -30 /\ sOut.score = 0
                   /\ sOut.status = "Critical Centralization")
        /\ (sIn = [top1 |-> 8, top10 |-> 25, holders |-> 1000]
                => /\ sOut.score = 70
                   /\ sOut.status = "Moderate Concentration")

\* C19 witness: (8, 25, 1000) was scored 70 and classed Moderate.
C19_Witness ==
    /\ sOut # NoResult
    /\ sIn = [top1 |-> 8, top10 |-> 25, holders |-> 1000]
    /\ sOut.score = 70
    /\ sOut.status = "Moderate Concentration"

\* C20: whatever the percentages in [0,100] and the holder count, the
\* returned score lies in [0,100].
C20_ScoreInRange ==
    sOut # NoResult =>
        /\ sIn.top1 \in 0..100 /\ sIn.top10 \in 0..100 /\ sIn.holders >= 0
        /\ sOut.score >= 0
        /\ sOut.score <= 100

\* C20 witness: no penalty and the +5 holder bonus: raw 105, returned 100.
C20_Witness ==
    /\ sOut # NoResult
    /\ sIn.holders > 2000
    /\ sOut.raw = 105
    /\ sOut.score = 100

\* Sub-tasks of the call that have not run to their end.
PendingSubTasks ==
    {i \in DOMAIN wFlows : wFlows[i] = Pending}
        \cup {i \in DOMAIN wFunders : wFunders[i] = Pending}

\* C21 (as claimed): once the sub-tasks have been started, the call is over
\* only when none of them is still running, each has resolved to a value
\* (real or neutral default), and what the call produces is a result.
C21_ResultOnlyAfterAllResolved ==
    (wPhase = "done" /\ wWallets # <<>>) =>
        /\ PendingSubTasks = {}
        /\ \A i \in DOMAIN wWallets :
               wFlows[i].k = "val" /\ wFunders[i].k = "val"
        /\ wOut # Raised

\* C22: whether a holder of the lock has died inside the block or stays in
\* it longer than the timeout, every call that is waiting for the lock comes
\* to be inside the block and to its return.
C22_WaiterEventuallyReturns ==
    \A p \in Procs :
        (dProc[p].pc \in {"open", "stale", "break"})
            ~> (dProc[p].pc \in {"done", "crashed"})

\* C22 witness: a process died holding the lock and another caller, having
\* waited longer than the timeout, has returned its result.
C22_Witness ==
    \E p \in Procs, q \in Procs :
        /\ dProc[p].pc = "crashed"
        /\ dProc[q].pc = "done"
        /\ dProc[q].timedout
        /\ dProc[q].out # Raised /\ dProc[q].out # NoResult

\* C23 (as claimed): the store is only ever replaced whole: at every moment
\* the store file is absent or holds a complete map, so that a read at any
\* moment, a concurrent one or one after a crash, sees a complete map.
C23_StoreNeverPartial == storeFile.k \in {"none", "ok"}

\* A call that has loaded and appended, and is past _save_db without the
\* store having been replaced.
WriteFailed(p) ==
    /\ dProc[p].pc = "release"
    /\ dProc[p].db[dProc[p].mint] # <<>>
    /\ ~dProc[p].wrote

\* C24: when the write of the store fails, the call still has a result and
\* no exception; the result is the one of the history that includes the new
\* sample (current value the one passed, previous value the last one loaded,
\* or First Record when nothing was loaded); the store file holds what it
\* held when the call loaded it.
C24_FailedWriteStillReturns ==
    \A p \in Procs :
        WriteFailed(p) =>
            LET c == dProc[p]
                n == Len(c.loaded)
            IN  /\ c.out # Raised
                /\ c.out.current_top1 = c.val
                /\ c.db[c.mint] = Trim(Append(c.loaded, [ts |-> clock, val |-> c.val]))
                /\ IF n = 0
                   THEN c.out.status = "First Record"
                   ELSE /\ c.out.previous_top1 = c.loaded[n].val
                        /\ c.out.shift = c.val - c.loaded[n].val
                /\ Stored(c.mint) = c.loaded
                /\ ValuesOf(Stored(c.mint)) = LastN(dLog[c.mint], HISTORY_LIMIT)

\* C24 witness: with three samples stored, the write of a fourth call failed;
\* the call has its result against the third and the store still holds three.
C24_Witness ==
    /\ WriteFailed("p1")
    /\ Len(dProc["p1"].loaded) = 3
    /\ Len(Stored("m1")) = 3
    /\ dProc["p1"].out.previous_top1 = 13
    /\ dProc["p1"].out.current_top1 = 14

C26_PremiumAfterActivation ==
    (ckOut # NoResult /\ ckOut.user \in Users) =>
        \A i \in 1..ckOut.ngrants :
            (grants[i].user = ckOut.user /\ ckOut.at < grants[i].expires_at)
                => ckOut.type = "Premium"

\* C27: a record the engine wrote stays in premium_users.json, active and
\* with the same or a later expiry, until that expiry.
C27_ActiveRecordStays ==
    \A i \in 1..Len(grants) :
        clock < grants[i].expires_at =>
            LET rec == premFile[grants[i].user]
            IN  /\ rec # NoRecord
                /\ rec.active
                /\ rec.expires_at >= grants[i].expires_at

\* C28: at most one caller is inside a "with self._lock()" block.
C28_OneInsideLock ==
    Cardinality({x \in PayProcs : InSessLock(x)}) <= 1

\* C29: a wallet recorded as used has no pending session, and a wallet
\* activates premium at most once.
C29_UsedWalletNoSession ==
    /\ \A w \in usedFile : sessFile[w] = NoSession
    /\ \A w \in Wallets :
          Cardinality({i \in 1..Len(grants) : grants[i].wallet = w}) <= 1

\* C30: premium is extended at most once for one signature, and a
\* signature marked processed is not passed to verify_transaction again.
C30_OncePerSignature ==
    /\ \A sig \in Sigs :
          Cardinality({i \in 1..Len(grants) : grants[i].sig = sig}) <= 1
    /\ pProc["eng"].pc = "verify" => pProc["eng"].sig \notin txFile

SessionsOf(user_id) ==
    {w \in Wallets : sessFile[w] # NoSession /\ sessFile[w].user_id = user_id}

\* C32: the session store holds at most one session per user (and, being
\* keyed by wallet, one per wallet), each stored under its own
\* payer_wallet.
C32_OneSessionPerUserAndWallet ==
    /\ \A u \in Users : Cardinality(SessionsOf(u)) <= 1
    /\ \A w \in Wallets :
          sessFile[w] # NoSession => sessFile[w].payer_wallet = w
\* create_session has just stored a session for a user who had one under
\* another wallet, and that one is gone.
C32_Witness ==
    LET b == pProc["bot"]
    IN  /\ b.pc = "unlock" /\ b.op = "create"
        /\ \E k \in Wallets \ {b.wallet} :
              /\ b.held[k] # NoSession /\ b.held[k].user_id = b.user
              /\ sessFile[k] = NoSession
        /\ SessionsOf(b.user) = {b.wallet}

\* The count the usage cache holds for the user (0 without a record).
CountOf33(cache, u) == IF cache[u] = NoUsage THEN 0 ELSE cache[u].count

\* C33: a Free user starts at most 5 scans per reset window;
\* check_status refuses exactly when the count is 5 or more; a scan
\* started as a Free user adds one to the count; the count goes back to 0
\* only when 86400 s have passed since last_reset; and a scan started as
\* Admin or Premium changes no count.
C33_FreeScanLimit ==
    [][LET b == pProc["bot"]
           scanned == b.pc = "scan" /\ pProc'["bot"].pc = "idle"
       IN  /\ \A u \in Users : winScans'[u] <= DAILY_LIMIT
           /\ (ckOut' # NoResult /\ ckOut'.type = "Free") =>
                 (ckOut'.allowed <=> ckOut'.usage < DAILY_LIMIT)
           /\ (ckOut' # ckOut /\ ckOut'.type = "Free") =>
                 ckOut'.usage = usageCache'[ckOut'.user].count
           /\ (scanned /\ b.held.type = "Free") =>
                 CountOf33(usageCache', b.user) = CountOf33(usageCache, b.user) + 1
           /\ (scanned /\ b.held.type # "Free") => usageCache' = usageCache
           /\ \A u \in Users :
                 CountOf33(usageCache', u) < CountOf33(usageCache, u) =>
                     /\ CountOf33(usageCache', u) = 0
                     /\ clock - usageCache[u].last_reset >= RESET_PERIOD]_vars

\* C34: a detected bundle dominates the other signals: whenever
\* bundle_detected is true the verdict has risk_score >= 50 and intensity
\* High or Critical.
C34_BundleDominates ==
    (vOut # NoResult /\ vIn.bundle_detected) =>
        /\ vOut.risk_score >= 50
        /\ vOut.risk_intensity \in {"High", "Critical"}

\* C35: missing data never raises the reported risk: when the second run
\* differs from the first only in one Gateway response replaced by the
\* empty result, its risk_score is at most that of the first.
C35_MissingDataNeverRaisesRisk ==
    pairOut # NoResult => pairOut.second <= pairOut.first

\* Whether process p is between its os.open and the end of the finally.
Holds(p) == InBlock(p) \/ dProc[p].pc = "release"
\* Every holder so far has left the block less than the timeout after its
\* os.open created the lock file.
ShortHolds ==
    lockFile # NoFile /\ Holds(lockFile.owner)
        => clock - lockFile.mtime < LockTimeout

\* C36: if no holder crashes and every holder leaves its critical section
\* in less than the 5 s timeout, then no waiter removes the lock file of a
\* live holder (every caller inside the block still has the file its own
\* os.open created) and at most one caller is inside the block.
C36_ShortHoldsExclude ==
    []ShortHolds =>
        [](/\ \A p \in Procs :
                 Holds(p) => lockFile # NoFile /\ lockFile.owner = p
           /\ Cardinality({p \in Procs : InBlock(p)}) <= 1)

\* C36 witness: a caller that waited longer than the timeout and found the
\* lock file of a later, short hold not stale has acquired the lock after
\* that holder's release, the third call of the run.
C36_Witness ==
    \E p \in Procs :
        /\ InBlock(p) /\ dProc[p].timedout
        /\ lockFile # NoFile /\ lockFile.owner = p
        /\ Len(dCalls) = MaxHoldCalls
        /\ \A q \in Procs \ {p} : dProc[q].pc = "done"
        /\ Len(dLog["m1"]) = 2

\* C37: calculate_dominance_shift(mint, v) changes only the history of mint:
\* in every interleaving of concurrent calls for distinct tokens, once all
\* calls have returned the store holds the sample of every call, and no
\* token's history has lost or gained anything else.
C37_NoLostUpdate ==
    (\A p \in Procs : dProc[p].pc \in {"idle", "done"}) =>
        \A m \in Mints : ValuesOf(Stored(m)) = dLog[m]

\* Gateway requests posted by sub-tasks and not yet answered.
TaskCallsInFlight == SumFn([r \in Requests |-> lReq[r].call], Requests)
\* Whether a sub-task of request r has started and not ended.
SubTasksRunning(r) == lReq[r].left < lReq[r].num

\* C38: at every moment at most 5 wallet sub-tasks hold a limiter permit,
\* the holders have at most one Gateway call in flight each, the free
\* permits are between 0 and 5 and are exactly those not held (a sub-task
\* that ended, by return or by raising, has given its permit back), and all
\* 5 are free when no sub-task is running.
C38_PermitsConserved ==
    /\ PermitsHeld <= CONCURRENCY_LIMIT
    /\ TaskCallsInFlight <= PermitsHeld
    /\ semValue \in 0..CONCURRENCY_LIMIT
    /\ semValue + PermitsHeld = CONCURRENCY_LIMIT
    /\ (\A r \in Requests : ~SubTasksRunning(r)) =>
          /\ semValue = CONCURRENCY_LIMIT
          /\ semWaiters = <<>>

\* C38 witness: all 5 permits are held while further sub-tasks wait, one
\* holder is in its backoff sleep, and sub-tasks have already ended and
\* handed their permits on.
C38_Witness ==
    /\ PermitsHeld = CONCURRENCY_LIMIT
    /\ semValue = 0
    /\ semWaiters # <<>>
    /\ \E r \in Requests : lReq[r].sleep > 0
    /\ \E r \in Requests : lReq[r].left > 0

\* Sub-tasks of request r waiting for a permit: in the semaphore's queue,
\* or woken and not yet run.
Waiting(r) ==
    lReq[r].woken + Cardinality({i \in DOMAIN semWaiters : semWaiters[i] = r})

\* C39: provided every Gateway call terminates, every calculate_whale_pressure
\* call that has started returns, however the sub-tasks of concurrent
\* analyses compete for the 5 permits: a request with sub-tasks waiting for
\* a permit comes to have none waiting, and its gather ends.
C39_EveryRequestTerminates ==
    \A r \in Requests :
        /\ (lReq[r].phase \in {"step1", "step2"}) ~> (lReq[r].phase = "done")
        /\ (Waiting(r) > 0) ~> (Waiting(r) = 0 /\ ~SubTasksRunning(r))

\* C39 witness: both requests have returned, each after gathering more
\* sub-tasks than there are permits.
C39_Witness ==
    \A r \in Requests :
        /\ lReq[r].phase = "done"
        /\ lReq[r].num > CONCURRENCY_LIMIT
        /\ lReq[r].left = lReq[r].num

====
